---- MODULE Spec2Model ----
(***************************************************************************)
(* Knowledge Graph Construction Engine of Raseed (Backend/app).            *)
(*                                                                         *)
(* models/knowledge_graph.py : KnowledgeGraph, add_entity, add_relation,   *)
(*                             to_dict, from_dict                          *)
(* agents/graph_builder.py   : item extraction, item classification,       *)
(*                             graph assembly, merge_graphs                *)
(*                                                                         *)
(* Numbers with a fraction are kept as integers: confidences and weights   *)
(* in tenths (0.7 is 7, 1.0 is 10), prices in cents.                       *)
(***************************************************************************)
EXTENDS Integers, Sequences, FiniteSets, TLC

VARIABLES
    kg,          \* a KnowledgeGraph object being mutated by add_entity / add_relation
    kgDoc,       \* the dictionary last produced by to_dict (NoDoc before the first one)
    clsItems,    \* the batch last handed to _classify_items_with_gemini
    clsResponse, \* the outcome of the AI call of that classification
    clsResult,   \* what _classify_items_with_gemini did: returned a list, or raised
    comprehensive_analysis, \* the attribute of that name of the one agent object
    runs,        \* the requests of the test route that are in progress or done
    pc,          \* position of the build_graph_from_receipt run
    receipt,     \* the receipt of the run
    attempt,     \* index of the current _call_gemini attempt (0, 1, 2)
    geminiItems, \* what _extract_items_from_text returned
    extractPath, \* the path _extract_items_from_text took
    itemsToProcess, \* the item set chosen for classification
    classified,  \* the classification records of the chosen items
    built,       \* the graph build_graph_from_receipt holds
    buildStatus, \* "running", "returned" or "raised"
    aiLog,       \* the _call_gemini attempts of the run, in order
    storeOutcome, \* what _store_graph did in the run: "none", "stored" or "raised"
    store,       \* Firestore collection knowledge_graphs: document id -> document
    mergeIds,    \* graph_ids of the merge_graphs call
    loaded,      \* the graph objects merge_graphs loaded, as they are when it ends
    merged,      \* the graph merge_graphs built
    mergeStatus, \* "idle", "returned" or "raised"
    analyzedId,  \* graph_id of the analyze_graph call
    analytics,   \* the GraphAnalytics analyze_graph built
    analyzeStatus, \* "idle", "returned" or "raised"
    fbReceipt,   \* the receipt _fallback_regex_extraction was called with
    fbLocals     \* the locals of _fallback_regex_extraction when it returns

graphVars == <<kg, kgDoc>>

clsVars == <<clsItems, clsResponse, clsResult, comprehensive_analysis, runs>>

buildVars == <<pc, receipt, attempt, geminiItems, extractPath, itemsToProcess,
               classified, built, buildStatus, aiLog, storeOutcome>>

mergeVars == <<store, mergeIds, loaded, merged, mergeStatus>>

analyzeVars == <<analyzedId, analytics, analyzeStatus>>

regexVars == <<fbReceipt, fbLocals>>

vars == <<graphVars, clsVars, buildVars, mergeVars, analyzeVars, regexVars>>

(***************************************************************************)
(* Bounds of the model                                                     *)
(***************************************************************************)
MaxEntities == 3
MaxRelations == 3
MaxItems == 2
MaxAIList == 2
MaxMergeIds == 3
MaxLines == 4

(***************************************************************************)
(* Generic helpers                                                         *)
(***************************************************************************)
None == "None"

NoDoc == [exists |-> FALSE]

Min(a, b) == IF a <= b THEN a ELSE b

Max(a, b) == IF a >= b THEN a ELSE b

\* dict.update / {**a, **b}: union of the two mappings, keys of b overwrite
DictUpdate(a, b) ==
    [k \in (DOMAIN a) \cup (DOMAIN b) |-> IF k \in DOMAIN b THEN b[k] ELSE a[k]]

\* str.lower() on the names the model uses
Lower(s) ==
    CASE s = "Apples" -> "apples"
      [] s = "Tablet" -> "tablet"
      [] s = "Paracetamol Capsule" -> "paracetamol capsule"
      [] s = "Aspirin" -> "aspirin"
      [] s = "Cotton Shirt" -> "cotton shirt"
      [] s = "Big Mart" -> "big mart"
      [] s = "BIG MART" -> "big mart"
      [] s = "Milk"     -> "milk"
      [] s = "MILK"     -> "milk"
      [] s = "E1"       -> "e1"
      [] s = "Bread"    -> "bread"
      [] s = "Corner Shop" -> "corner shop"
      [] s = "Kiosk"    -> "kiosk"
      [] s = "Gum"      -> "gum"
      [] s = "Whole Milk" -> "whole milk"
      [] s = "Laptop"   -> "laptop"
      [] s = "Pen"      -> "pen"
      [] s = "Vitamin C" -> "vitamin c"
      [] s = "MILK 1L"  -> "milk 1l"
      [] s = "BREAD"    -> "bread"
      [] s = "Orange Juice" -> "orange juice"
      [] s = "Tea"      -> "tea"
      [] OTHER          -> s

(***************************************************************************)
(* models/knowledge_graph.py                                               *)
(***************************************************************************)
\* GraphEntity(...): id, name, type, category, attributes, confidence
GraphEntity(id, name, type, category, attributes, confidence) ==
    [id |-> id, name |-> name, type |-> type, category |-> category,
     attributes |-> attributes, confidence |-> confidence]

\* GraphRelation(...): id, endpoints, relation_type, weight, attributes
GraphRelation(id, src, tgt, rtype, weight, attributes) ==
    [id |-> id, source_entity_id |-> src, target_entity_id |-> tgt,
     relation_type |-> rtype, weight |-> weight, attributes |-> attributes]

\* KnowledgeGraph(name=..., receipt_ids=..., user_id=...): the lists default to
\* empty and both counters default to 0
KnowledgeGraph(name, receipt_ids) ==
    [name |-> name, entities |-> <<>>, relations |-> <<>>,
     receipt_ids |-> receipt_ids, total_entities |-> 0, total_relations |-> 0]

add_entity_nocount(g, entity) ==
    [g EXCEPT !.entities = Append(@, entity)]

\* KnowledgeGraph.add_entity: append, then recompute the counter
add_entity(g, entity) ==
    [g EXCEPT !.entities = Append(@, entity),
              !.total_entities = Len(g.entities) + 1]

\* KnowledgeGraph.add_relation: append, then recompute the counter
add_relation(g, relation) ==
    [g EXCEPT !.relations = Append(@, relation),
              !.total_relations = Len(g.relations) + 1]

\* add every element of a list in order (the "for x in xs: graph.add_x(x)" loops)
RECURSIVE AddEntitiesDeduplicated(_, _)
AddEntitiesDeduplicated(g, es) ==
    IF es = <<>> THEN g
    ELSE IF \E i \in 1..Len(g.entities) :
               /\ g.entities[i].name = Head(es).name
               /\ g.entities[i].type = Head(es).type
         THEN AddEntitiesDeduplicated(g, Tail(es))
         ELSE AddEntitiesDeduplicated(add_entity(g, Head(es)), Tail(es))

RECURSIVE AddEntities(_, _)
AddEntities(g, es) ==
    IF es = <<>> THEN g ELSE AddEntities(add_entity(g, Head(es)), Tail(es))

RECURSIVE AddRelations(_, _)
AddRelations(g, rs) ==
    IF rs = <<>> THEN g ELSE AddRelations(add_relation(g, Head(rs)), Tail(rs))

\* KnowledgeGraph.to_dict: the counters are written as they stand
to_dict(g) ==
    [exists |-> TRUE, name |-> g.name, entities |-> g.entities,
     relations |-> g.relations, receipt_ids |-> g.receipt_ids,
     total_entities |-> g.total_entities, total_relations |-> g.total_relations]

\* KnowledgeGraph.from_dict: the counters are read back from the dictionary and
\* only default to the lengths when the key is missing
from_dict(data) ==
    [name |-> data.name, entities |-> data.entities, relations |-> data.relations,
     receipt_ids |-> data.receipt_ids,
     total_entities |-> IF "total_entities" \in DOMAIN data
                        THEN data.total_entities ELSE Len(data.entities),
     total_relations |-> IF "total_relations" \in DOMAIN data
                         THEN data.total_relations ELSE Len(data.relations)]

(***************************************************************************)
(* JSON values and items                                                   *)
(*                                                                         *)
(* A JSON object (a Python dict) is a function on its keys, so that        *)
(* dict.get can tell a missing key; a JSON value that is not an object (a  *)
(* string or a number inside an array) is Scalar; a list is a sequence.    *)
(* A ReceiptItem object carries the field obj, a dict item does not.       *)
(***************************************************************************)
Scalar == [scalar |-> TRUE]

IsDict(x) == "scalar" \notin DOMAIN x

\* hasattr(item, 'name'): true of ReceiptItem objects only
IsReceiptItem(x) == "obj" \in DOMAIN x

\* dict.get(k, default)
Get(d, k, default) == IF k \in DOMAIN d THEN d[k] ELSE default

\* dates: a literal date of the AI or of the code, today plus a number of days,
\* or None
LiteralDate(s) == [literal |-> s]

TodayPlus(days) == [plus_days |-> days]

NoDate == [none |-> TRUE]

Returned(v) == [status |-> "returned", value |-> v]

Raised == [status |-> "raised", value |-> <<>>]

(***************************************************************************)
(* agents/graph_builder.py: keyword fallback classifier                    *)
(***************************************************************************)
food_keywords ==
    {"milk", "bread", "egg", "rice", "sugar", "tea", "coffee", "juice", "water",
     "cola", "soda", "snack", "biscuit", "chocolate", "fruit", "vegetable",
     "oil", "flour", "butter", "cheese", "meat", "chicken", "fish", "pasta"}

electronics_keywords ==
    {"laptop", "computer", "phone", "mobile", "tablet", "tv", "camera",
     "headphone", "speaker", "cable", "charger", "mouse", "keyboard"}

clothing_keywords ==
    {"shirt", "pant", "dress", "shoe", "bag", "jacket", "cap", "hat",
     "trouser", "jean", "suit", "sock", "underwear"}

pharmacy_keywords ==
    {"tablet", "capsule", "syrup", "medicine", "drug", "vitamin",
     "paracetamol", "aspirin", "cream", "ointment", "bandage"}

\* the keywords (of the four sets and of the shelf-life table) that occur as a
\* substring of a lower-cased item name, for the names the model uses
KeywordsIn(name) ==
    CASE name = "whole milk" -> {"milk"}
      [] name = "laptop"     -> {"laptop"}
      [] name = "vitamin c"  -> {"vitamin"}
      [] name = "milk 1l"    -> {"milk"}
      [] name = "bread"      -> {"bread"}
      [] name = "orange juice" -> {"orange", "juice", "ice"}
      [] name = "apples"     -> {"apple"}
      [] name = "tablet"     -> {"tablet"}
      [] name = "paracetamol capsule" -> {"paracetamol", "capsule", "cap"}
      [] name = "aspirin"    -> {"aspirin"}
      [] name = "cotton shirt" -> {"shirt"}
      [] name = "tea"        -> {"tea"}
      [] OTHER               -> {}

\* any(keyword in item_name for keyword in keywords)
AnyKeyword(name, keywords) == (KeywordsIn(name) \cap keywords) # {}

\* _predict_expiry_date: days of the first rule, in the table's order, whose
\* keyword occurs in the name; 30 when none does
expiry_rules ==
    << <<"milk", 3>>, <<"yogurt", 5>>, <<"cream", 4>>, <<"butter", 7>>,
       <<"cheese", 10>>, <<"bread", 3>>, <<"bun", 2>>, <<"cake", 4>>,
       <<"pastry", 2>>, <<"croissant", 2>>, <<"banana", 5>>, <<"apple", 14>>,
       <<"orange", 10>>, <<"tomato", 7>>, <<"lettuce", 3>>, <<"potato", 30>>,
       <<"onion", 21>>, <<"carrot", 21>>, <<"cucumber", 7>>, <<"chicken", 2>>,
       <<"beef", 3>>, <<"pork", 3>>, <<"fish", 1>>, <<"shrimp", 1>>,
       <<"pasta", 365>>, <<"rice", 365>>, <<"flour", 180>>, <<"sugar", 730>>,
       <<"oil", 180>>, <<"vinegar", 730>>, <<"sauce", 90>>, <<"jam", 365>>,
       <<"juice", 7>>, <<"soda", 180>>, <<"water", 365>>, <<"tea", 730>>,
       <<"coffee", 365>>, <<"frozen", 90>>, <<"ice", 365>>, <<"canned", 730>>,
       <<"can", 730>>, <<"tablet", 730>>, <<"capsule", 730>>, <<"syrup", 365>>,
       <<"vitamin", 730>> >>

RECURSIVE FirstRuleDaysNoBreak(_, _)
FirstRuleDaysNoBreak(name, i) ==
    IF i > Len(expiry_rules) THEN 30
    ELSE LET later == FirstRuleDaysNoBreak(name, i + 1) IN
         IF expiry_rules[i][1] \in KeywordsIn(name) /\ later = 30
         THEN expiry_rules[i][2]
         ELSE later

RECURSIVE FirstRuleDays(_, _)
FirstRuleDays(name, i) ==
    IF i > Len(expiry_rules) THEN 30
    ELSE IF expiry_rules[i][1] \in KeywordsIn(name) THEN expiry_rules[i][2]
    ELSE FirstRuleDays(name, i + 1)

_predict_expiry_date(product_name) == TodayPlus(FirstRuleDays(product_name, 1))

KeywordCategoryPharmacyFirst(item_name) ==
    IF AnyKeyword(item_name, food_keywords) THEN "grocery"
    ELSE IF AnyKeyword(item_name, pharmacy_keywords) THEN "pharmacy"
    ELSE IF AnyKeyword(item_name, electronics_keywords) THEN "electronics"
    ELSE IF AnyKeyword(item_name, clothing_keywords) THEN "clothing"
    ELSE "other"

\* the category the if/elif chain assigns
KeywordCategory(item_name) ==
    IF AnyKeyword(item_name, food_keywords) THEN "grocery"
    ELSE IF AnyKeyword(item_name, electronics_keywords) THEN "electronics"
    ELSE IF AnyKeyword(item_name, clothing_keywords) THEN "clothing"
    ELSE IF AnyKeyword(item_name, pharmacy_keywords) THEN "pharmacy"
    ELSE "other"

\* the name the loop reads: item.name of a ReceiptItem, item.get("name", "unknown")
\* of a dict
FallbackItemName(item) ==
    IF IsReceiptItem(item) THEN item.name ELSE Get(item, "name", "unknown")

FallbackItemPrice(item) ==
    IF IsReceiptItem(item) THEN item.unit_price ELSE Get(item, "price", 0)

\* one record of _create_fallback_classifications
KeywordClassification(item) ==
    LET item_name == Lower(FallbackItemName(item))
        category == KeywordCategory(item_name)
        has_expiry == category \in {"grocery", "pharmacy"}
    IN  [category |-> category,
         confidence |-> 7,
         brand |-> None,
         enhanced_data |->
            [product_type |-> category,
             warranty_info |->
                [has_warranty |-> (category = "electronics"),
                 warranty_period |-> IF category = "electronics" THEN "1 year" ELSE None],
             expiry_info |->
                [has_expiry |-> has_expiry,
                 expiry_date |-> IF has_expiry THEN _predict_expiry_date(item_name)
                                 ELSE NoDate,
                 is_expiring_soon |-> has_expiry],
             nutritional_info |-> [is_food |-> (category = "grocery")],
             price_analysis |-> [unit_price |-> FallbackItemPrice(item),
                                 is_discounted |-> FALSE]]]

\* _create_fallback_classifications raises (AttributeError) on an item that is
\* neither a ReceiptItem nor a dict, and on a dict whose name is null
KeywordFallbackRaises(items) ==
    \E i \in 1..Len(items) :
        /\ ~IsReceiptItem(items[i])
        /\ \/ ~IsDict(items[i])
           \/ Get(items[i], "name", "unknown") = None

_create_fallback_classifications(items) ==
    IF KeywordFallbackRaises(items) THEN Raised
    ELSE Returned([i \in 1..Len(items) |-> KeywordClassification(items[i])])

(***************************************************************************)
(* agents/graph_builder.py: parsing the AI classification response         *)
(***************************************************************************)
fallback_categories == <<"food", "beverages", "household", "personal_care", "other">>

\* _fallback_classification(expected_count)
_fallback_classification(expected_count) ==
    [i \in 1..expected_count |->
        LET category == fallback_categories[((i - 1) % Len(fallback_categories)) + 1]
            edible == category \in {"food", "beverages"}
        IN  [category |-> category,
             confidence |-> 5,
             brand |-> None,
             enhanced_data |->
                [category |-> category,
                 confidence |-> 5,
                 warranty_info |-> [has_warranty |-> FALSE],
                 expiry_info |->
                    [has_expiry |-> edible,
                     expiry_date |-> IF edible THEN LiteralDate("2025-07-25") ELSE NoDate],
                 nutritional_info |-> [is_food |-> edible],
                 price_analysis |-> [unit_price |-> 0, is_discounted |-> FALSE]]]]

\* the record appended for every missing per-item classification
DefaultClassification ==
    [category |-> "food", confidence |-> 6, brand |-> None,
     product_type |-> "food_item",
     warranty_info |-> [has_warranty |-> FALSE],
     expiry_info |-> [has_expiry |-> TRUE, expiry_date |-> LiteralDate("2025-07-25"),
                      is_expiring_soon |-> FALSE],
     nutritional_info |-> [is_food |-> TRUE],
     price_analysis |-> [unit_price |-> 0, is_discounted |-> FALSE]]

PadTrimNoPad(item_classifications, expected_count) ==
    SubSeq(item_classifications, 1, Min(Len(item_classifications), expected_count))

\* the while loop that appends defaults, then the slice [:expected_count]
PadTrim(item_classifications, expected_count) ==
    [i \in 1..expected_count |->
        IF i <= Len(item_classifications) THEN item_classifications[i]
        ELSE DefaultClassification]

\* the conversion loop: category, confidence and brand with their defaults,
\* the whole classification kept as enhanced_data
ConvertClassification(classification) ==
    [category |-> Get(classification, "category", "food"),
     confidence |-> Get(classification, "confidence", 6),
     brand |-> Get(classification, "brand", None),
     enhanced_data |-> classification]

\* the text after the fence handling: "```json" and "```" are cut with
\* response[7:-3] / response[3:-3], which removes the last three characters
\* whether or not they are a closing fence
StripFence(response) ==
    IF response.fence = "none" \/ response.closed THEN response.json
    ELSE [t |-> "invalid"]

\* _parse_classification_response(response, expected_count): every exception
\* (JSONDecodeError or other) ends in _fallback_classification
_parse_classification_response(response, expected_count) ==
    LET analysis == StripFence(response)
        fallback == _fallback_classification(expected_count)
    IN  IF analysis.t # "object" THEN fallback
        ELSE LET ic == analysis.ic IN
             CASE ic.t = "absent" ->
                    LET fixed == PadTrim(<<>>, expected_count) IN
                    [i \in 1..Len(fixed) |-> ConvertClassification(fixed[i])]
               [] ic.t = "list" ->
                    LET fixed == PadTrim(ic.items, expected_count) IN
                    IF \E i \in 1..Len(fixed) : ~IsDict(fixed[i]) THEN fallback
                    ELSE [i \in 1..Len(fixed) |-> ConvertClassification(fixed[i])]
               \* a string: len() works, append does not, a slice does, and its
               \* characters have no get
               [] ic.t = "str" ->
                    IF ic.n < expected_count THEN fallback
                    ELSE IF expected_count = 0 THEN <<>> ELSE fallback
               \* a dict: len() works, append and slicing do not, and iterating
               \* it yields its keys, which have no get
               [] ic.t = "dict" ->
                    IF ic.n # expected_count THEN fallback
                    ELSE IF expected_count = 0 THEN <<>> ELSE fallback
               \* null or a number: len() raises
               [] OTHER -> fallback

\* whether the try block of _parse_classification_response ends in one of its
\* except clauses: json.loads fails, the value has no get, len() / append / the
\* slice fail on item_classifications, or an element of it has no get
ParseRaises(response, expected_count) ==
    LET analysis == StripFence(response) IN
    IF analysis.t # "object" THEN TRUE
    ELSE LET ic == analysis.ic IN
         CASE ic.t = "absent" -> FALSE
           [] ic.t = "list" ->
                LET fixed == PadTrim(ic.items, expected_count) IN
                \E i \in 1..Len(fixed) : ~IsDict(fixed[i])
           [] ic.t = "str" -> ic.n < expected_count \/ expected_count # 0
           [] ic.t = "dict" -> ic.n # expected_count \/ expected_count # 0
           [] OTHER -> TRUE

\* getattr(agent, 'comprehensive_analysis', {}) before any assignment
Unset == [unset |-> TRUE]

\* the analysis _fallback_classification stores on the agent
FallbackAnalysis(expected_count) ==
    [business_analysis |->
        [business_category |-> "grocery_store", store_type |-> "supermarket"],
     item_classifications |->
        [i \in 1..expected_count |-> _fallback_classification(expected_count)[i].enhanced_data]]

\* self.comprehensive_analysis when _parse_classification_response has ended: the
\* parsed value, or what _fallback_classification put in its place
AnalysisAfterParse(response, expected_count) ==
    IF ParseRaises(response, expected_count)
    THEN FallbackAnalysis(expected_count)
    ELSE StripFence(response)

\* building items_data raises (AttributeError) on an item that is neither a
\* ReceiptItem nor a dict
ItemsDataRaises(items) ==
    \E i \in 1..Len(items) : ~IsReceiptItem(items[i]) /\ ~IsDict(items[i])

\* _classify_items_with_gemini(items) for a given outcome of _call_gemini
_classify_items_with_gemini(items, response) ==
    IF ItemsDataRaises(items) \/ response.kind = "error"
    THEN _create_fallback_classifications(items)
    ELSE Returned(_parse_classification_response(response, Len(items)))

\* self.comprehensive_analysis when _classify_items_with_gemini has ended:
\* _create_fallback_classifications does not assign it
AnalysisAfterClassify(current, items, response) ==
    IF ItemsDataRaises(items) \/ response.kind = "error" THEN current
    ELSE AnalysisAfterParse(response, Len(items))

(***************************************************************************)
(* agents/graph_builder.py: item extraction                                *)
(*                                                                         *)
(* A text of the AI is its markdown fence and its payload: prose around a  *)
(* JSON value or around something that is no JSON.  A raw receipt text is  *)
(* its lines, each given by the regular-expression family it matches and   *)
(* by what the match captures.                                             *)
(***************************************************************************)
\* _clean_gemini_response: strip, drop an opening "```json" / "```" and a closing
\* "```", then, when the text holds both '[' and ']', keep only what lies from the
\* first '[' to the last ']'
_clean_gemini_response(response) ==
    LET j == response.json IN
    CASE j.t = "array" -> j
      [] j.t = "object" /\ "arr" \in DOMAIN j -> [t |-> "array", items |-> j.arr]
      [] j.t = "garbage" -> j
      [] OTHER -> IF response.prose THEN [t |-> "garbage", brackets |-> FALSE] ELSE j

\* what the rest of the pipeline sees of a value json.loads returned: the pipeline
\* only takes its length, tests it for emptiness and iterates it, and iterating a
\* dict or a string yields strings (its keys, its characters)
AsIterated(j) ==
    IF j.t = "array" THEN j.items ELSE [i \in 1..j.n |-> Scalar]

IsTotalIgnored(price, rcpt) == FALSE

\* is_total: the receipt has a total and the price is less than a cent from it
IsTotal(price, rcpt) == rcpt.total_amount # 0 /\ price = rcpt.total_amount

InPriceRange(price) == 100 <= price /\ price <= 1000000

\* the role the loop body gives a line: a same-line item, a price line, an
\* item-name candidate, or nothing
LineRole(line, rcpt) ==
    IF line.kind \in {"short", "skip_word", "separator"} THEN "skipped"
    ELSE IF /\ line.kind = "same_line"
            /\ line.name_len >= 3 /\ line.name_len <= 50
            /\ line.has_alpha
            /\ InPriceRange(line.price)
            /\ ~IsTotal(line.price, rcpt)
         THEN "same_line"
    ELSE IF line.kind = "price" /\ ~IsTotal(line.price, rcpt) /\ InPriceRange(line.price)
         THEN "price"
    ELSE IF line.kind = "name" /\ line.name_len >= 3 /\ line.name_len <= 30
         THEN "name"
    ELSE "skipped"

ExtractedItem(name, price) ==
    [name |-> name, price |-> price, quantity |-> 1, total_price |-> price]

\* the indices (in line order) of the lines that have a role
RECURSIVE LinesWithRole(_, _, _, _)
LinesWithRole(lines, rcpt, role, i) ==
    IF i > Len(lines) THEN <<>>
    ELSE IF LineRole(lines[i], rcpt) = role
         THEN <<i>> \o LinesWithRole(lines, rcpt, role, i + 1)
         ELSE LinesWithRole(lines, rcpt, role, i + 1)

\* the closest price line not yet used; of several at the same distance the first
\* in line order (the scan replaces its best only on a strictly smaller distance);
\* 0 when every price line is used
Distance(a, b) == IF a >= b THEN a - b ELSE b - a

NearestPriceReusing(item_idx, price_lines, used_prices) ==
    LET free == 1..Len(price_lines) IN
    IF free = {} THEN 0
    ELSE price_lines[CHOOSE k \in free : \A m \in free :
            \/ Distance(item_idx, price_lines[k]) < Distance(item_idx, price_lines[m])
            \/ /\ Distance(item_idx, price_lines[k]) = Distance(item_idx, price_lines[m])
               /\ k <= m]

NearestPrice(item_idx, price_lines, used_prices) ==
    LET free == { k \in 1..Len(price_lines) : price_lines[k] \notin used_prices } IN
    IF free = {} THEN 0
    ELSE price_lines[CHOOSE k \in free : \A m \in free :
            \/ Distance(item_idx, price_lines[k]) < Distance(item_idx, price_lines[m])
            \/ /\ Distance(item_idx, price_lines[k]) = Distance(item_idx, price_lines[m])
               /\ k <= m]

\* the pairing loop over item_lines: the (item line, price line) pairs it makes,
\* in the order it makes them
RECURSIVE PairLines(_, _, _, _)
PairLines(item_lines, price_lines, used_prices, n) ==
    IF n > Len(item_lines) THEN <<>>
    ELSE LET best == NearestPrice(item_lines[n], price_lines, used_prices) IN
         IF best = 0
         THEN PairLines(item_lines, price_lines, used_prices, n + 1)
         ELSE << <<item_lines[n], best>> >>
              \o PairLines(item_lines, price_lines, used_prices \cup {best}, n + 1)

FallbackLocalsPairedFirst(raw_text, rcpt) ==
    LET same == LinesWithRole(raw_text, rcpt, "same_line", 1)
        item_lines == LinesWithRole(raw_text, rcpt, "name", 1)
        price_lines == LinesWithRole(raw_text, rcpt, "price", 1)
        pairs == PairLines(item_lines, price_lines, {}, 1)
    IN  [same_lines |-> same, item_lines |-> item_lines, price_lines |-> price_lines,
         pairs |-> pairs,
         items |->
            [k \in 1..Len(pairs) |->
                ExtractedItem(raw_text[pairs[k][1]].name, raw_text[pairs[k][2]].price)]
            \o [k \in 1..Len(same) |->
                ExtractedItem(raw_text[same[k]].name, raw_text[same[k]].price)],
         sources |-> [k \in 1..Len(pairs) |-> {pairs[k][1], pairs[k][2]}]
                     \o [k \in 1..Len(same) |-> {same[k]}]]

\* the locals of _fallback_regex_extraction when it returns: the lines whose
\* same-line item was appended during the scan, item_lines, price_lines, the
\* pairs made, the list items, and for every element of items the lines it was
\* made from
FallbackLocals(raw_text, rcpt) ==
    LET same == LinesWithRole(raw_text, rcpt, "same_line", 1)
        item_lines == LinesWithRole(raw_text, rcpt, "name", 1)
        price_lines == LinesWithRole(raw_text, rcpt, "price", 1)
        pairs == PairLines(item_lines, price_lines, {}, 1)
    IN  [same_lines |-> same, item_lines |-> item_lines, price_lines |-> price_lines,
         pairs |-> pairs,
         items |->
            [k \in 1..Len(same) |->
                ExtractedItem(raw_text[same[k]].name, raw_text[same[k]].price)]
            \o [k \in 1..Len(pairs) |->
                ExtractedItem(raw_text[pairs[k][1]].name, raw_text[pairs[k][2]].price)],
         sources |-> [k \in 1..Len(same) |-> {same[k]}]
                     \o [k \in 1..Len(pairs) |-> {pairs[k][1], pairs[k][2]}]]

\* _fallback_regex_extraction(raw_text, receipt): the same-line items in line
\* order, then the paired items
_fallback_regex_extraction(raw_text, rcpt) == FallbackLocals(raw_text, rcpt).items

\* json.loads and what follows it, for a cleaned text that is not empty
ParsedExtraction(raw_text, rcpt, response_clean) ==
    CASE response_clean.t = "garbage" ->
            [path |-> "decode_error", status |-> "returned", value |-> <<>>]
      [] response_clean.t = "number" ->
            [path |-> "fallback", status |-> "returned",
             value |-> _fallback_regex_extraction(raw_text, rcpt)]
      [] OTHER ->
            [path |-> "ai", status |-> "returned", value |-> AsIterated(response_clean)]

_extract_items_from_text_uncaught(raw_text, rcpt, response) ==
    IF response.kind = "error"
    THEN [path |-> "raised", status |-> "raised", value |-> <<>>]
    ELSE LET response_clean == _clean_gemini_response(response) IN
         IF response_clean.t = "empty"
         THEN [path |-> "empty", status |-> "returned", value |-> <<>>]
         ELSE ParsedExtraction(raw_text, rcpt, response_clean)

\* _extract_items_from_text(raw_text, receipt) for a given outcome of _call_gemini:
\* the list it returns and the path it took.  An error of the call and a TypeError
\* of len() on a JSON number go to the regex fallback; an empty text and a
\* JSONDecodeError return the empty list.
_extract_items_from_text(raw_text, rcpt, response) ==
    IF response.kind = "error"
    THEN [path |-> "fallback", status |-> "returned",
          value |-> _fallback_regex_extraction(raw_text, rcpt)]
    ELSE LET response_clean == _clean_gemini_response(response) IN
         IF response_clean.t = "empty"
         THEN [path |-> "empty", status |-> "returned", value |-> <<>>]
         ELSE ParsedExtraction(raw_text, rcpt, response_clean)

(***************************************************************************)
(* agents/graph_builder.py: graph assembly                                 *)
(***************************************************************************)
max_retries == 3

\* one pass of the loop of _call_gemini that ends in the except clause: on the
\* last attempt the exception is raised to the caller, on the others the call
\* sleeps 2 ** attempt seconds and tries again
FailedAttempt(op, n) ==
    [op |-> op, outcome |-> "error",
     raised |-> (n = max_retries - 1),
     slept |-> IF n = max_retries - 1 THEN 0 ELSE 2 ^ n]

\* one pass that ends in "return response.text"
ReturnedAttempt(op) == [op |-> op, outcome |-> "text", raised |-> FALSE, slept |-> 0]

EmptyDict == <<>>

\* enhanced_data.get(block, {}).get(key, default)
Nested(enhanced_data, block, key, default) ==
    Get(Get(enhanced_data, block, EmptyDict), key, default)

\* uuid4 identifiers: distinct strings, here numbered in creation order
EntityId(n) == "u" \o ToString(n)

RelationId(n) == "r" \o ToString(n)

ChooseItemsAtLeast(rcpt, gemini_items) ==
    IF Len(gemini_items) >= Len(rcpt.items) \/ rcpt.items = <<>>
    THEN gemini_items ELSE rcpt.items

\* the item set that is classified
ChooseItems(rcpt, gemini_items) ==
    IF Len(gemini_items) > Len(rcpt.items) \/ rcpt.items = <<>>
    THEN gemini_items ELSE rcpt.items

\* merchant, location and payment-method entities of the receipt header
HeaderEntities(rcpt) ==
    <<GraphEntity("", rcpt.merchant_name, "merchant", None,
                  [address |-> rcpt.merchant_address, total_amount |-> rcpt.total_amount],
                  10)>>
    \o (IF rcpt.merchant_address # None
        THEN <<GraphEntity("", rcpt.merchant_address, "location", None,
                           [type |-> "merchant_location"], 10)>>
        ELSE <<>>)
    \o (IF rcpt.payment_method # None
        THEN <<GraphEntity("", rcpt.payment_method, "payment_method", None,
                           [card_last_four |-> None], 10)>>
        ELSE <<>>)

\* str(x) of a name: the text "None" of a null name is not the null itself
Str(x) == IF x = None THEN "'None'" ELSE x

\* name of the product entity: item.name, or str(item.get('name', 'Unknown Item'))
ItemDisplayName(item) ==
    IF IsReceiptItem(item) THEN item.name ELSE Str(Get(item, "name", "Unknown Item"))

\* the "product" attribute of the second brand entity: item.name, or
\* item.get('name', 'Unknown') as it is
BrandProductName(item) ==
    IF IsReceiptItem(item) THEN item.name ELSE Get(item, "name", "Unknown")

\* confidence of the product entity: classification.get("confidence", 0.8), as is
ProductConfidence(classification) == Get(classification, "confidence", 8)

\* the entities one (item, classification) pair yields: the product, a brand
\* entity when a brand was detected, the category, and the brand once more
ItemEntities(item, classification) ==
    LET enhanced_data == Get(classification, "enhanced_data", EmptyDict)
        base_price == IF IsReceiptItem(item) THEN item.unit_price
                      ELSE Get(item, "price", 0)
        quantity == IF IsReceiptItem(item) THEN item.quantity
                    ELSE Get(item, "quantity", 1)
        brand == Get(classification, "brand", None)
        category_name == Get(classification, "category", "other")
        product_attributes ==
            [price |-> base_price,
             quantity |-> quantity,
             total_price |-> IF IsReceiptItem(item) THEN item.total_price
                             ELSE Get(item, "total_price", base_price * quantity),
             confidence |-> Get(classification, "confidence", 8),
             brand |-> brand,
             product_type |-> Get(enhanced_data, "product_type", None),
             has_warranty |-> Nested(enhanced_data, "warranty_info", "has_warranty", FALSE),
             warranty_period |-> Nested(enhanced_data, "warranty_info", "warranty_period", None),
             has_expiry |-> Nested(enhanced_data, "expiry_info", "has_expiry", FALSE),
             expiry_date |-> Nested(enhanced_data, "expiry_info", "expiry_date", NoDate),
             is_expiring_soon |-> Nested(enhanced_data, "expiry_info", "is_expiring_soon", FALSE),
             is_food |-> Nested(enhanced_data, "nutritional_info", "is_food", FALSE),
             unit_price |-> Nested(enhanced_data, "price_analysis", "unit_price", base_price),
             is_discounted |-> Nested(enhanced_data, "price_analysis", "is_discounted", FALSE)]
        product_entity ==
            GraphEntity("", ItemDisplayName(item), "product", category_name,
                        product_attributes, ProductConfidence(classification))
    IN  <<product_entity>>
        \o (IF brand \notin {None, ""}
            THEN <<GraphEntity("", brand, "brand", None,
                               [domain |-> "product_brand",
                                detected_from |-> ItemDisplayName(item)], 10)>>
            ELSE <<>>)
        \o <<GraphEntity("", category_name, "category", None,
                         [domain |-> "product_category"], 10)>>
        \o (IF brand \notin {None, ""}
            THEN <<GraphEntity("", brand, "brand", None,
                               [product |-> BrandProductName(item)], 10)>>
            ELSE <<>>)

\* for item, classification in zip(items_to_process, classified_items)
RECURSIVE ZipEntities(_, _, _)
ZipEntities(items, classifications, i) ==
    IF i > Min(Len(items), Len(classifications)) THEN <<>>
    ELSE ItemEntities(items[i], classifications[i])
         \o ZipEntities(items, classifications, i + 1)

\* _extract_entities_from_receipt once the items are classified; every entity
\* gets its own fresh id
_extract_entities_from_receipt(rcpt, items, classifications) ==
    LET es == HeaderEntities(rcpt) \o ZipEntities(items, classifications, 1)
    IN  [i \in 1..Len(es) |-> [es[i] EXCEPT !.id = EntityId(i)]]

\* _create_relationships(entities, receipt), ids left to the caller
RelationsOf(entities, rcpt) ==
    LET OfType(t) == LET Is(e) == e.type = t IN SelectSeq(entities, Is)
        products == OfType("product")
        merchants == OfType("merchant")
        categories == OfType("category")
        brands == OfType("brand")
        locations == OfType("location")
        payments == OfType("payment_method")
        CategoryOf(product) ==
            LET product_category == IF product.category \in {None, ""} THEN "other"
                                    ELSE product.category
                Named(c) == c.name = product_category
            IN  SelectSeq(categories, Named)
        BrandOf(product) ==
            LET For(b) == Get(b.attributes, "product", None) = product.name
            IN  SelectSeq(brands, For)
        purchased ==
            IF merchants = <<>> THEN <<>>
            ELSE [i \in 1..Len(products) |->
                    GraphRelation("", products[i].id, merchants[1].id, "purchased_at", 10,
                                  [price |-> products[i].attributes.price])]
        RECURSIVE belongs(_)
        belongs(i) ==
            IF i > Len(products) THEN <<>>
            ELSE (IF CategoryOf(products[i]) # <<>>
                  THEN <<GraphRelation("", products[i].id, CategoryOf(products[i])[1].id,
                                       "belongs_to_category", products[i].confidence,
                                       EmptyDict)>>
                  ELSE <<>>) \o belongs(i + 1)
        RECURSIVE made(_)
        made(i) ==
            IF i > Len(products) THEN <<>>
            ELSE (IF BrandOf(products[i]) # <<>>
                  THEN <<GraphRelation("", products[i].id, BrandOf(products[i])[1].id,
                                       "manufactured_by", 9, EmptyDict)>>
                  ELSE <<>>) \o made(i + 1)
        located ==
            IF merchants # <<>> /\ locations # <<>>
            THEN <<GraphRelation("", merchants[1].id, locations[1].id, "located_at", 10,
                                 EmptyDict)>>
            ELSE <<>>
        paid ==
            IF payments # <<>> /\ merchants # <<>>
            THEN <<GraphRelation("", merchants[1].id, payments[1].id, "paid_with", 10,
                                 [amount |-> rcpt.total_amount])>>
            ELSE <<>>
    IN  purchased \o belongs(1) \o made(1) \o located \o paid

_create_relationships(entities, rcpt) ==
    LET rs == RelationsOf(entities, rcpt)
    IN  [i \in 1..Len(rs) |-> [rs[i] EXCEPT !.id = RelationId(i)]]

\* _store_graph: storage from the backend is switched off, it logs and returns
_store_graph(collection, graph) == collection

\* build_graph_from_receipt from the classified items on: the graph it returns
AssembleGraph(rcpt, items, classifications) ==
    LET entities == _extract_entities_from_receipt(rcpt, items, classifications)
        relations == _create_relationships(entities, rcpt)
    IN  AddRelations(AddEntities(KnowledgeGraph(rcpt.graph_name, <<rcpt.id>>), entities),
                     relations)

(***************************************************************************)
(* services/firestore_service.py and agents/graph_builder.py: merge        *)
(***************************************************************************)
\* save_knowledge_graph: the document is stored under the graph's name, with the
\* counters taken from the lists
SavedDocument(g) ==
    [exists |-> TRUE, name |-> g.name, entities |-> g.entities,
     relations |-> g.relations, receipt_ids |-> g.receipt_ids,
     total_entities |-> Len(g.entities), total_relations |-> Len(g.relations)]

save_knowledge_graph(collection, g) ==
    [collection EXCEPT ![g.name] = SavedDocument(g)]

RECURSIVE ResolvedIdsUntilMiss(_, _)
ResolvedIdsUntilMiss(collection, graph_ids) ==
    IF graph_ids = <<>> \/ ~collection[Head(graph_ids)].exists THEN <<>>
    ELSE <<Head(graph_ids)>> \o ResolvedIdsUntilMiss(collection, Tail(graph_ids))

\* the requested ids whose document exists, in request order
RECURSIVE ResolvedIds(_, _)
ResolvedIds(collection, graph_ids) ==
    IF graph_ids = <<>> THEN <<>>
    ELSE (IF collection[Head(graph_ids)].exists THEN <<Head(graph_ids)>> ELSE <<>>)
         \o ResolvedIds(collection, Tail(graph_ids))

\* graphs.append(KnowledgeGraph.from_dict(doc.to_dict())) for every document found
LoadGraphs(collection, graph_ids) ==
    LET ids == ResolvedIds(collection, graph_ids)
    IN  [i \in 1..Len(ids) |-> from_dict(collection[ids[i]])]

\* the entities (the relations) of all loaded graphs, in graph order then list order
RECURSIVE AllEntities(_)
AllEntities(graphs) ==
    IF graphs = <<>> THEN <<>> ELSE Head(graphs).entities \o AllEntities(Tail(graphs))

RECURSIVE AllRelations(_)
AllRelations(graphs) ==
    IF graphs = <<>> THEN <<>> ELSE Head(graphs).relations \o AllRelations(Tail(graphs))

RECURSIVE AllReceiptIds(_)
AllReceiptIds(graphs) ==
    IF graphs = <<>> THEN <<>> ELSE Head(graphs).receipt_ids \o AllReceiptIds(Tail(graphs))

\* key = (entity.name.lower(), entity.type)
EntityKey(entity) == <<Lower(entity.name), entity.type>>

MergeEntityIntoKeepFirst(entity_map, entity) ==
    IF \E k \in 1..Len(entity_map) : EntityKey(entity_map[k]) = EntityKey(entity)
    THEN entity_map
    ELSE Append(entity_map, entity)

\* one step of the entity loop: a new key enters entity_map, a known key has the
\* attributes of its entity updated and its confidence raised to the larger one.
\* entity_map is kept as the list of its values in insertion order.
MergeEntityInto(entity_map, entity) ==
    IF \E k \in 1..Len(entity_map) : EntityKey(entity_map[k]) = EntityKey(entity)
    THEN [k \in 1..Len(entity_map) |->
            IF EntityKey(entity_map[k]) = EntityKey(entity)
            THEN [entity_map[k] EXCEPT
                    !.attributes = DictUpdate(@, entity.attributes),
                    !.confidence = Max(@, entity.confidence)]
            ELSE entity_map[k]]
    ELSE Append(entity_map, entity)

RECURSIVE MergeEntities(_, _)
MergeEntities(entity_map, entities) ==
    IF entities = <<>> THEN entity_map
    ELSE MergeEntities(MergeEntityInto(entity_map, Head(entities)), Tail(entities))

\* next((e for e in merged_graph.entities if e.name == entity_id), None): the
\* position of the first entity whose NAME equals the relation's endpoint id, 0
\* when there is none
FindByName(entities, entity_id) ==
    LET hits == { k \in 1..Len(entities) : entities[k].name = entity_id }
    IN  IF hits = {} THEN 0 ELSE CHOOSE k \in hits : \A m \in hits : k <= m

\* the key of a relation whose two endpoints were found, <<>> otherwise
RelationKey(entities, relation) ==
    LET src == FindByName(entities, relation.source_entity_id)
        tgt == FindByName(entities, relation.target_entity_id)
    IN  IF src = 0 \/ tgt = 0 THEN <<>>
        ELSE <<entities[src].id, entities[tgt].id, relation.relation_type>>

StrengthenUncapped(weight) == weight + 1

\* existing.weight = min(existing.weight + 0.1, 1.0)
Strengthen(weight) == Min(weight + 1, 10)

\* one step of the relation loop; relation_map is kept as the list of its
\* (key, relation) pairs in insertion order
MergeRelationInto(relation_map, entities, relation) ==
    LET key == RelationKey(entities, relation) IN
    IF key = <<>> THEN relation_map
    ELSE IF \E k \in 1..Len(relation_map) : relation_map[k].key = key
    THEN [k \in 1..Len(relation_map) |->
            IF relation_map[k].key = key
            THEN [relation_map[k] EXCEPT !.relation.weight = Strengthen(@)]
            ELSE relation_map[k]]
    ELSE Append(relation_map,
                [key |-> key,
                 relation |-> [relation EXCEPT !.source_entity_id = key[1],
                                               !.target_entity_id = key[2]]])

RECURSIVE MergeRelations(_, _, _)
MergeRelations(relation_map, entities, relations) ==
    IF relations = <<>> THEN relation_map
    ELSE MergeRelations(MergeRelationInto(relation_map, entities, Head(relations)),
                        entities, Tail(relations))

\* the graph merge_graphs builds from the loaded graphs
MergedGraph(graphs) ==
    LET entity_map == MergeEntities(<<>>, AllEntities(graphs))
        with_entities ==
            AddEntities([KnowledgeGraph("merged", <<>>) EXCEPT
                            !.receipt_ids = AllReceiptIds(graphs)],
                        entity_map)
        relation_map == MergeRelations(<<>>, with_entities.entities, AllRelations(graphs))
    IN  AddRelations(with_entities,
                     [k \in 1..Len(relation_map) |-> relation_map[k].relation])

\* The entity objects of entity_map and the relation objects of relation_map ARE
\* objects of the loaded graphs: the first entity of a key and the first relation
\* of a key are changed in place.  The loaded graphs as they are when
\* merge_graphs ends:
LoadedAfterMerge(graphs) ==
    LET result == MergedGraph(graphs)
        es == AllEntities(graphs)
        rs == AllRelations(graphs)
        FirstEntity(k) == \A m \in 1..(k - 1) : EntityKey(es[m]) # EntityKey(es[k])
        EntityNow(k) ==
            IF FirstEntity(k)
            THEN result.entities[CHOOSE m \in 1..Len(result.entities) :
                                    EntityKey(result.entities[m]) = EntityKey(es[k])]
            ELSE es[k]
        KeyOf(k) == RelationKey(result.entities, rs[k])
        FirstRelation(k) ==
            /\ KeyOf(k) # <<>>
            /\ \A m \in 1..(k - 1) : KeyOf(m) # KeyOf(k)
        RelationNow(k) ==
            IF FirstRelation(k)
            THEN result.relations[CHOOSE m \in 1..Len(result.relations) :
                    <<result.relations[m].source_entity_id,
                      result.relations[m].target_entity_id,
                      result.relations[m].relation_type>> = KeyOf(k)]
            ELSE rs[k]
        RECURSIVE Offset(_, _)
        Offset(i, field) ==
            IF i = 1 THEN 0 ELSE Offset(i - 1, field) + Len(graphs[i - 1][field])
    IN  [i \in 1..Len(graphs) |->
            [graphs[i] EXCEPT
                !.entities = [k \in 1..Len(graphs[i].entities) |->
                                EntityNow(Offset(i, "entities") + k)],
                !.relations = [k \in 1..Len(graphs[i].relations) |->
                                RelationNow(Offset(i, "relations") + k)]]]

(***************************************************************************)
(* agents/graph_builder.py: analyze_graph                                  *)
(*                                                                         *)
(* Of the GraphAnalytics it returns the model keeps category_distribution, *)
(* relation_type_counts and total_receipts_analyzed; the two rankings      *)
(* (most_frequent_products, most_frequent_merchants) are left out.         *)
(***************************************************************************)
get_entities_by_type(g, entity_type) ==
    LET Is(e) == e.type = entity_type IN SelectSeq(g.entities, Is)

get_relations_for_entity(g, entity_id) ==
    LET Involves(r) == r.source_entity_id = entity_id \/ r.target_entity_id = entity_id
    IN  SelectSeq(g.relations, Involves)

\* len([r for r in graph.get_relations_for_entity(category.id)
\*      if r.relation_type == "belongs_to_category"])
CategoryRelationCount(g, category) ==
    LET Belongs(r) == r.relation_type = "belongs_to_category"
    IN  Len(SelectSeq(get_relations_for_entity(g, category.id), Belongs))

\* for category in categories: analytics.category_distribution[category.name] = ...
\* the dictionary is keyed by the category NAME, a later entity of a name
\* overwrites the entry of an earlier one
RECURSIVE CategoryDistribution(_, _, _)
CategoryDistribution(g, categories, dist) ==
    IF categories = <<>> THEN dist
    ELSE LET category == Head(categories)
         IN  CategoryDistribution(g, Tail(categories),
                DictUpdate(dist, category.name :> CategoryRelationCount(g, category)))

\* relation_type_counts[rel_type] = relation_type_counts.get(rel_type, 0) + 1
RelationTypeCounts(g) ==
    [t \in { g.relations[k].relation_type : k \in 1..Len(g.relations) } |->
        Cardinality({ k \in 1..Len(g.relations) : g.relations[k].relation_type = t })]

\* the GraphAnalytics of a graph that was found
GraphAnalytics(graph_id, g) ==
    [graph_id |-> graph_id,
     category_distribution |->
        CategoryDistribution(g, get_entities_by_type(g, "category"), <<>>),
     relation_type_counts |-> RelationTypeCounts(g),
     total_receipts_analyzed |-> Len(g.receipt_ids)]

NoAnalytics ==
    [graph_id |-> None, category_distribution |-> <<>>, relation_type_counts |-> <<>>,
     total_receipts_analyzed |-> 0]

(***************************************************************************)
(* Inputs                                                                  *)
(***************************************************************************)
SeqsUpTo(S, n) == UNION { [1..k -> S] : k \in 0..n }

NoAttrs == [domain |-> None]

SampleEntities ==
    { GraphEntity("e1", "Milk", "product", "grocery", NoAttrs, 7),
      GraphEntity("e2", "Big Mart", "merchant", None, NoAttrs, 10) }

SampleRelations ==
    { GraphRelation("r1", "e1", "e2", "purchased_at", 10, NoAttrs),
      GraphRelation("r2", "e1", "e1", "similar_to", 5, NoAttrs) }

\* items as the extractor returns them (dicts), as a receipt carries them
\* (ReceiptItem objects), and what an AI answer of unexpected shape puts in
\* their place (a dict whose name is null, an array element that is no object)
MilkItem == [name |-> "Whole Milk", price |-> 5500, quantity |-> 1, total_price |-> 5500]

LaptopItem == [name |-> "Laptop", price |-> 99900, quantity |-> 1, total_price |-> 99900]

PenReceiptItem ==
    [obj |-> TRUE, name |-> "Pen", description |-> None, unit_price |-> 1000,
     quantity |-> 2, total_price |-> 2000, sku |-> None]

NullNameItem == [name |-> None, price |-> 100]

WellFormedItems == {MilkItem, LaptopItem, PenReceiptItem}

SampleItems == WellFormedItems \cup {NullNameItem, Scalar}

\* what json.loads can put into an array: never a ReceiptItem object
JsonItems == SampleItems \ {PenReceiptItem}

\* an item in the sense of the data model: a ReceiptItem, or a dict whose name,
\* when present, is a string
WellFormedItem(item) ==
    \/ IsReceiptItem(item)
    \/ IsDict(item) /\ Get(item, "name", "unknown") # None

WellFormedBatch(items) == \A i \in 1..Len(items) : WellFormedItem(items[i])

\* per-item classifications an AI answer can hold: a complete one, one whose
\* confidence is outside [0,1], one whose category is the empty string, one with
\* no category and no confidence, and an element that is not an object
AIElements ==
    { [category |-> "dairy", confidence |-> 9, brand |-> "Amul",
       expiry_info |-> [has_expiry |-> TRUE, expiry_date |-> LiteralDate("2025-08-01")]],
      [category |-> "electronics", confidence |-> 15],
      [category |-> "", confidence |-> 8],
      [brand |-> None],
      Scalar }

AIItemClassifications ==
    { [t |-> "absent"], [t |-> "null"] }
    \cup { [t |-> "list", items |-> l] : l \in SeqsUpTo(AIElements, MaxAIList) }
    \cup { [t |-> k, n |-> n] : k \in {"str", "dict"}, n \in 0..MaxAIList }

AIJson ==
    { [t |-> "invalid"], [t |-> "nondict"] }
    \cup { [t |-> "object", ic |-> ic] : ic \in AIItemClassifications }

\* outcomes of _call_gemini in classification: an error after the retries, or
\* a text, bare or behind a markdown fence that is closed or not
AIClassificationResponses ==
    { [kind |-> "error"] }
    \cup { [kind |-> "text", fence |-> "none", closed |-> TRUE, json |-> j] : j \in AIJson }
    \cup { [kind |-> "text", fence |-> f, closed |-> c, json |-> j] :
              f \in {"json", "plain"}, c \in BOOLEAN, j \in AIJson }

\* raw receipt texts, line by line
Line(kind, name, name_len, has_alpha, price) ==
    [kind |-> kind, name |-> name, name_len |-> name_len, has_alpha |-> has_alpha,
     price |-> price]

\* "MILK 1L  Rs. 55.00" / "BREAD" / "42.00" / "TOTAL  97.00"
MilkBreadText ==
    << Line("same_line", "MILK 1L", 7, TRUE, 5500),
       Line("name", "BREAD", 5, TRUE, 0),
       Line("price", "", 0, FALSE, 4200),
       Line("skip_word", "", 0, FALSE, 0) >>

\* "Orange Juice" / "97.00" / "3.00" / "----" / "Tea" / "X $0.50"
JuiceTeaText ==
    << Line("name", "Orange Juice", 12, TRUE, 0),
       Line("price", "", 0, FALSE, 9700),
       Line("price", "", 0, FALSE, 300),
       Line("separator", "", 0, FALSE, 0),
       Line("name", "Tea", 3, TRUE, 0),
       Line("same_line", "X", 1, TRUE, 50) >>

\* the empty text: one line, empty
EmptyText == << Line("short", "", 0, FALSE, 0) >>

\* lines a receipt text is made of for the regex extractor alone: two item
\* names, prices (in range, equal to the total of the receipt, one cent above
\* it, below the range), same-line items (valid, priced at the total, priced
\* above the range) and an empty line
SampleLines ==
    { Line("name", "Tea", 3, TRUE, 0),
      Line("name", "Orange Juice", 12, TRUE, 0),
      Line("price", "", 0, FALSE, 300),
      Line("price", "", 0, FALSE, 9700),
      Line("price", "", 0, FALSE, 9701),
      Line("price", "", 0, FALSE, 50),
      Line("same_line", "MILK 1L", 7, TRUE, 5500),
      Line("same_line", "Ghee", 4, TRUE, 9700),
      Line("same_line", "Gold Ring", 9, TRUE, 1500000),
      Line("short", "", 0, FALSE, 0) }

\* what _fallback_regex_extraction is called with: a raw text of at least one
\* line and a receipt with or without a total
RegexReceipts ==
    { [total_amount |-> total, raw_text |-> raw_text] :
         total \in {0, 9700}, raw_text \in SeqsUpTo(SampleLines, MaxLines) \ {<<>>} }

\* well-formed receipts: a merchant name, a date, a raw text, possibly items
Receipts ==
    { [id |-> "rcp1", graph_name |-> "2025-01-22_Big_Mart", merchant_name |-> "Big Mart",
       merchant_address |-> "12 Main St", payment_method |-> "card",
       total_amount |-> 9700, items |-> <<>>, raw_text |-> MilkBreadText],
      [id |-> "rcp2", graph_name |-> "2025-01-23_Corner_Shop", merchant_name |-> "Corner Shop",
       merchant_address |-> None, payment_method |-> None,
       total_amount |-> 0, items |-> <<PenReceiptItem>>, raw_text |-> EmptyText],
      [id |-> "rcp3", graph_name |-> "2025-01-24_Big_Mart", merchant_name |-> "Big Mart",
       merchant_address |-> "12 Main St", payment_method |-> None,
       total_amount |-> 9700, items |-> <<PenReceiptItem>>, raw_text |-> JuiceTeaText] }

\* what the AI can answer to the extraction prompt
AIExtractionJson ==
    { [t |-> "array", items |-> l] : l \in SeqsUpTo(JsonItems, MaxItems) }
    \cup { [t |-> "object", n |-> 1, arr |-> l] : l \in SeqsUpTo({MilkItem}, MaxItems) }
    \cup { [t |-> "object", n |-> n] : n \in 0..MaxItems }
    \cup { [t |-> "string", n |-> n] : n \in 0..MaxItems }
    \cup { [t |-> "number"], [t |-> "empty"] }
    \cup { [t |-> "garbage", brackets |-> b] : b \in BOOLEAN }

AIExtractionResponses ==
    { [kind |-> "error"] }
    \cup { [kind |-> "text", fence |-> f, prose |-> p, json |-> j] :
              f \in {"none", "json"}, p \in BOOLEAN, j \in AIExtractionJson }

\* items the keyword classifier is run on: names with a food, an electronics,
\* a clothing or a pharmacy keyword, with keywords of two sets, with a
\* shelf-life keyword only, and with none
NamedItem(name) == [name |-> name, price |-> 1000, quantity |-> 1, total_price |-> 1000]

KeywordItems ==
    { NamedItem(n) : n \in {"Whole Milk", "Orange Juice", "Tea", "Laptop", "Tablet",
                            "Cotton Shirt", "Paracetamol Capsule", "Vitamin C",
                            "Aspirin", "Apples"} }
    \cup {PenReceiptItem}

\* the two items the test route classifies
test_items ==
    << [name |-> "Orange Juice", description |-> "", price |-> 215, quantity |-> 1],
       [name |-> "Apples", description |-> "", price |-> 350, quantity |-> 1] >>

\* requests of the test route served at the same time by the one agent object
Pipelines == {"p1", "p2"}

IdleRun ==
    [pc |-> "idle", attempt |-> 0, response |-> [kind |-> "none"],
     result |-> [status |-> "idle", value |-> <<>>], observed |-> Unset]

\* the outcomes in which an attempt of _call_gemini returned response.text
TextsOf(responses) == { r \in responses : r.kind = "text" }

\* the texts the AI answers to the classification prompt of a build.  The build
\* reads of a text only what StripFence leaves of it, so every payload comes
\* bare and the short payloads come behind every fence as well
BuildClassificationTexts ==
    { r \in TextsOf(AIClassificationResponses) :
        \/ r.fence = "none"
        \/ r.json.t # "object"
        \/ r.json.ic.t = "absent" }

\* graphs that get saved to the knowledge_graphs collection.  gA and gB share a
\* merchant whose name differs in case only; gC shares no name with gA; gD was
\* written with the entity names as ids and holds one relation twice
StoredGraph(name, entities, relations, receipt_ids) ==
    [KnowledgeGraph(name, receipt_ids) EXCEPT
        !.entities = entities, !.relations = relations,
        !.total_entities = Len(entities), !.total_relations = Len(relations)]

SampleGraphs ==
    { StoredGraph("gA",
        << GraphEntity("a1", "Big Mart", "merchant", None,
                       [address |-> "12 Main St", tax_id |-> "T1"], 8),
           GraphEntity("a2", "Milk", "product", "grocery", [price |-> "55"], 7) >>,
        << GraphRelation("ra1", "a2", "a1", "purchased_at", 10, [price |-> "55"]) >>,
        <<"rcpA">>),
      StoredGraph("gB",
        << GraphEntity("b1", "big mart", "merchant", None,
                       [address |-> "Main Street 12", phone |-> "555"], 10),
           GraphEntity("b2", "Bread", "product", "grocery", [price |-> "42"], 15) >>,
        << GraphRelation("rb1", "b2", "b1", "purchased_at", 10, [price |-> "42"]) >>,
        <<"rcpB">>),
      StoredGraph("gC",
        << GraphEntity("c1", "Corner Shop", "merchant", None, [phone |-> "777"], 10),
           GraphEntity("c2", "Tea", "product", "grocery", [price |-> "30"], 9) >>,
        << GraphRelation("rc1", "c2", "c1", "purchased_at", 10, [price |-> "30"]) >>,
        <<"rcpC">>),
      StoredGraph("gD",
        << GraphEntity("Kiosk", "Kiosk", "merchant", None, [phone |-> "999"], 10),
           GraphEntity("Gum", "Gum", "product", "snacks", [price |-> "5"], 6) >>,
        << GraphRelation("rd1", "Gum", "Kiosk", "purchased_at", 9, [price |-> "5"]),
           GraphRelation("rd2", "Gum", "Kiosk", "purchased_at", 5, [price |-> "5"]) >>,
        <<"rcpD1", "rcpD2">>) }

\* document ids a merge can ask for: the names of the graphs above and one that
\* is never stored
DocIds == { g.name : g \in SampleGraphs } \cup {"gX"}

\* the documents of the collection: those and the graphs of the receipts, which
\* are saved under their names
BuiltDocIds == { r.graph_name : r \in Receipts }

AllDocIds == DocIds \cup BuiltDocIds

(***************************************************************************)
(* Initial state: no graph object touched, nothing classified              *)
(***************************************************************************)
GraphIdle ==
    /\ kg = KnowledgeGraph("g", <<"rcp">>)
    /\ kgDoc = NoDoc

ClsIdle ==
    /\ clsItems = <<>>
    /\ clsResponse = [kind |-> "none"]
    /\ clsResult = [status |-> "idle", value |-> <<>>]
    /\ comprehensive_analysis = Unset
    /\ runs = [p \in Pipelines |-> IdleRun]

BuildIdle ==
    /\ pc = "idle"
    /\ receipt = [none |-> TRUE]
    /\ attempt = 0
    /\ geminiItems = <<>>
    /\ extractPath = "none"
    /\ itemsToProcess = <<>>
    /\ classified = <<>>
    /\ built = KnowledgeGraph("none", <<>>)
    /\ buildStatus = "idle"
    /\ aiLog = <<>>
    /\ storeOutcome = "none"

MergeIdle ==
    /\ store = [d \in AllDocIds |-> NoDoc]
    /\ mergeIds = <<>>
    /\ loaded = <<>>
    /\ merged = KnowledgeGraph("none", <<>>)
    /\ mergeStatus = "idle"

AnalyzeIdle ==
    /\ analyzedId = None
    /\ analytics = NoAnalytics
    /\ analyzeStatus = "idle"

RegexIdle ==
    /\ fbReceipt = [none |-> TRUE]
    /\ fbLocals = [none |-> TRUE]

Init == GraphIdle /\ ClsIdle /\ BuildIdle /\ MergeIdle /\ AnalyzeIdle /\ RegexIdle

(***************************************************************************)
(* Graph-object specification: one graph object, any sequence of           *)
(* add_entity / add_relation, with to_dict / from_dict round trips         *)
(***************************************************************************)
NewGraph ==
    /\ kg' = KnowledgeGraph("g", <<"rcp">>)
    /\ UNCHANGED <<kgDoc, clsVars, buildVars, mergeVars, analyzeVars, regexVars>>

AddEntity(e) ==
    /\ Len(kg.entities) < MaxEntities
    /\ kg' = add_entity(kg, e)
    /\ UNCHANGED <<kgDoc, clsVars, buildVars, mergeVars, analyzeVars, regexVars>>

AddRelation(r) ==
    /\ Len(kg.relations) < MaxRelations
    /\ kg' = add_relation(kg, r)
    /\ UNCHANGED <<kgDoc, clsVars, buildVars, mergeVars, analyzeVars, regexVars>>

ToDict ==
    /\ kgDoc' = to_dict(kg)
    /\ UNCHANGED <<kg, clsVars, buildVars, mergeVars, analyzeVars, regexVars>>

FromDict ==
    /\ kgDoc.exists
    /\ kg' = from_dict(kgDoc)
    /\ UNCHANGED <<kgDoc, clsVars, buildVars, mergeVars, analyzeVars, regexVars>>

GraphNext ==
    \/ NewGraph
    \/ \E e \in SampleEntities : AddEntity(e)
    \/ \E r \in SampleRelations : AddRelation(r)
    \/ ToDict
    \/ FromDict

SpecGraph == Init /\ [][GraphNext]_vars

(***************************************************************************)
(* Classification specification: one call of _classify_items_with_gemini,  *)
(* on any batch and any outcome of the AI call                             *)
(***************************************************************************)
Classify(items, response) ==
    /\ clsResult.status = "idle"
    /\ clsItems' = items
    /\ clsResponse' = response
    /\ clsResult' = _classify_items_with_gemini(items, response)
    /\ comprehensive_analysis' = AnalysisAfterClassify(comprehensive_analysis, items, response)
    /\ UNCHANGED runs
    /\ UNCHANGED <<analyzeVars, regexVars, graphVars, buildVars, mergeVars>>

ClassifyNext ==
    /\ clsResult.status = "idle"
    /\ \E items \in SeqsUpTo(SampleItems, MaxItems), response \in AIClassificationResponses :
          Classify(items, response)

SpecClassify == Init /\ [][ClassifyNext]_vars

(***************************************************************************)
(* Keyword fallback specification: the AI call of a classification has     *)
(* failed and _create_fallback_classifications runs on the batch           *)
(***************************************************************************)
FallbackClassify(items) ==
    /\ clsResult.status = "idle"
    /\ clsItems' = items
    /\ clsResponse' = [kind |-> "error"]
    /\ clsResult' = _create_fallback_classifications(items)
    /\ UNCHANGED <<comprehensive_analysis, runs>>
    /\ UNCHANGED <<analyzeVars, regexVars, graphVars, buildVars, mergeVars>>

FallbackNext ==
    /\ clsResult.status = "idle"
    /\ \E items \in SeqsUpTo(KeywordItems, MaxItems) : FallbackClassify(items)

SpecFallback == Init /\ [][FallbackNext]_vars

(***************************************************************************)
(* Test route specification: requests of POST /test-ai-classification are  *)
(* served concurrently by coroutines on the module-level agent object.  A  *)
(* coroutine yields at the awaits of _call_gemini (the call in a thread,   *)
(* the sleep between attempts); from the return of the call to the read of *)
(* comprehensive_analysis in the route nothing is awaited.                 *)
(***************************************************************************)
\* texts the AI can answer to a request of the route
RouteResponses ==
    { r \in TextsOf(AIClassificationResponses) :
        /\ r.fence = "none"
        /\ r.json.t = "object" => r.json.ic.t \in {"absent", "null", "list"}
        /\ (r.json.t = "object" /\ r.json.ic.t = "list") => Len(r.json.ic.items) <= 1 }

\* the route is entered and _classify_items_with_gemini reaches its AI call
RunStart(p) ==
    /\ runs[p].pc = "idle"
    /\ runs' = [runs EXCEPT ![p].pc = "calling"]
    /\ UNCHANGED <<clsItems, clsResponse, clsResult, comprehensive_analysis>>
    /\ UNCHANGED <<analyzeVars, regexVars, graphVars, buildVars, mergeVars>>

\* the end of the request: the route reads the agent's comprehensive_analysis
\* right after the classification has returned
RunEnds(p, response, analysis) ==
    [runs EXCEPT ![p] =
        [pc |-> "done", attempt |-> 0, response |-> response,
         result |-> _classify_items_with_gemini(test_items, response),
         observed |-> analysis]]

\* an attempt fails: sleep and retry, or, on the last one, the keyword fallback
RunCallFails(p) ==
    /\ runs[p].pc = "calling"
    /\ runs' = IF runs[p].attempt < max_retries - 1
               THEN [runs EXCEPT ![p].attempt = @ + 1]
               ELSE RunEnds(p, [kind |-> "error"], comprehensive_analysis)
    /\ UNCHANGED <<clsItems, clsResponse, clsResult, comprehensive_analysis>>
    /\ UNCHANGED <<analyzeVars, regexVars, graphVars, buildVars, mergeVars>>

\* an attempt returns a text: it is parsed, the analysis is stored on the agent
RunCallReturns(p, response) ==
    /\ runs[p].pc = "calling"
    /\ comprehensive_analysis' =
          AnalysisAfterClassify(comprehensive_analysis, test_items, response)
    /\ runs' = RunEnds(p, response, comprehensive_analysis')
    /\ UNCHANGED <<clsItems, clsResponse, clsResult>>
    /\ UNCHANGED <<analyzeVars, regexVars, graphVars, buildVars, mergeVars>>

RouteNext ==
    \/ \E p \in Pipelines : RunStart(p)
    \/ \E p \in Pipelines : RunCallFails(p)
    \/ \E p \in Pipelines, response \in RouteResponses : RunCallReturns(p, response)

SpecTestRoute == Init /\ [][RouteNext]_vars

(***************************************************************************)
(* Build specification: one run of build_graph_from_receipt, cut at its    *)
(* awaits of the AI call                                                   *)
(***************************************************************************)
StartBuild(rcpt) ==
    /\ pc = "idle"
    /\ pc' = "extract"
    /\ receipt' = rcpt
    /\ attempt' = 0
    /\ buildStatus' = "running"
    /\ UNCHANGED <<geminiItems, extractPath, itemsToProcess, classified, built,
                   aiLog, storeOutcome>>
    /\ UNCHANGED <<analyzeVars, regexVars, graphVars, clsVars, mergeVars>>

\* try: await self._store_graph(graph) / except Exception: log a warning.  The
\* run goes on to "return graph" whether or not the store raised
StatusAfterStoreUncaught(store_raises) == IF store_raises THEN "raised" ELSE "returned"

StatusAfterStore(store_raises) == "returned"

\* the run ends: an exception leaves build_graph_from_receipt, or the graph is
\* assembled, handed to _store_graph and returned
FinishBuild(items, outcome) ==
    /\ pc' = "done"
    /\ attempt' = 0
    /\ IF outcome.status = "raised"
       THEN /\ buildStatus' = "raised"
            /\ UNCHANGED <<classified, built, store, storeOutcome>>
       ELSE \E store_raises \in BOOLEAN :
            /\ classified' = outcome.value
            /\ built' = AssembleGraph(receipt, items, outcome.value)
            /\ storeOutcome' = IF store_raises THEN "raised" ELSE "stored"
            /\ store' = IF store_raises THEN store ELSE _store_graph(store, built')
            /\ buildStatus' = StatusAfterStore(store_raises)

\* _extract_items_from_text has ended: choose the items, and go on up to the
\* next await (the AI call of the classification) or to the end of the run
AfterExtraction(extraction) ==
    LET items == ChooseItems(receipt, extraction.value) IN
    /\ geminiItems' = extraction.value
    /\ extractPath' = extraction.path
    /\ IF extraction.status = "raised"
       THEN /\ itemsToProcess' = <<>>
            /\ FinishBuild(<<>>, Raised)
       ELSE /\ itemsToProcess' = items
            /\ IF items = <<>>
               THEN FinishBuild(items, Returned(<<>>))
               ELSE IF ItemsDataRaises(items)
               THEN FinishBuild(items, _create_fallback_classifications(items))
               ELSE /\ pc' = "classify"
                    /\ attempt' = 0
                    /\ UNCHANGED <<classified, built, buildStatus, store, storeOutcome>>
    /\ UNCHANGED receipt
    /\ UNCHANGED <<analyzeVars, regexVars, graphVars, clsVars, mergeIds, loaded, merged, mergeStatus>>

\* an attempt of _call_gemini fails: sleep and retry, or raise on the last one
ExtractCallFails ==
    /\ pc = "extract"
    /\ aiLog' = Append(aiLog, FailedAttempt("extract", attempt))
    /\ IF attempt < max_retries - 1
       THEN /\ attempt' = attempt + 1
            /\ UNCHANGED <<pc, receipt, geminiItems, extractPath, itemsToProcess,
                           classified, built, buildStatus, storeOutcome>>
            /\ UNCHANGED <<analyzeVars, regexVars, graphVars, clsVars, mergeVars>>
       ELSE AfterExtraction(
                _extract_items_from_text(receipt.raw_text, receipt, [kind |-> "error"]))

ExtractCallReturnsRetryingParse(response) ==
    /\ pc = "extract"
    /\ aiLog' = Append(aiLog, ReturnedAttempt("extract"))
    /\ IF _clean_gemini_response(response).t = "garbage" /\ attempt < max_retries - 1
       THEN /\ attempt' = attempt + 1
            /\ UNCHANGED <<pc, receipt, geminiItems, extractPath, itemsToProcess,
                           classified, built, buildStatus, storeOutcome>>
            /\ UNCHANGED <<analyzeVars, regexVars, graphVars, clsVars, mergeVars>>
       ELSE AfterExtraction(_extract_items_from_text(receipt.raw_text, receipt, response))

\* an attempt of _call_gemini returns a text: the rest of
\* _extract_items_from_text runs on it
ExtractCallReturns(response) ==
    /\ pc = "extract"
    /\ aiLog' = Append(aiLog, ReturnedAttempt("extract"))
    /\ AfterExtraction(_extract_items_from_text(receipt.raw_text, receipt, response))

ClassifyCallFailsOnceMore ==
    /\ pc = "classify"
    /\ aiLog' = Append(aiLog, FailedAttempt("classify", attempt))
    /\ IF attempt < max_retries
       THEN /\ attempt' = attempt + 1
            /\ UNCHANGED <<pc, receipt, geminiItems, extractPath, itemsToProcess,
                           classified, built, buildStatus, storeOutcome>>
            /\ UNCHANGED <<analyzeVars, regexVars, graphVars, clsVars, mergeVars>>
       ELSE /\ FinishBuild(itemsToProcess,
                           _classify_items_with_gemini(itemsToProcess, [kind |-> "error"]))
            /\ UNCHANGED <<receipt, geminiItems, extractPath, itemsToProcess>>
            /\ UNCHANGED <<analyzeVars, regexVars, graphVars, clsVars, mergeIds, loaded, merged,
                           mergeStatus>>

ClassifyCallFails ==
    /\ pc = "classify"
    /\ aiLog' = Append(aiLog, FailedAttempt("classify", attempt))
    /\ IF attempt < max_retries - 1
       THEN /\ attempt' = attempt + 1
            /\ UNCHANGED <<pc, receipt, geminiItems, extractPath, itemsToProcess,
                           classified, built, buildStatus, storeOutcome>>
            /\ UNCHANGED <<analyzeVars, regexVars, graphVars, clsVars, mergeVars>>
       ELSE /\ FinishBuild(itemsToProcess,
                           _classify_items_with_gemini(itemsToProcess, [kind |-> "error"]))
            /\ UNCHANGED <<receipt, geminiItems, extractPath, itemsToProcess>>
            /\ UNCHANGED <<analyzeVars, regexVars, graphVars, clsVars, mergeIds, loaded, merged, mergeStatus>>

ClassifyCallReturns(response) ==
    /\ pc = "classify"
    /\ aiLog' = Append(aiLog, ReturnedAttempt("classify"))
    /\ FinishBuild(itemsToProcess, _classify_items_with_gemini(itemsToProcess, response))
    /\ comprehensive_analysis' =
          AnalysisAfterClassify(comprehensive_analysis, itemsToProcess, response)
    /\ UNCHANGED <<receipt, geminiItems, extractPath, itemsToProcess>>
    /\ UNCHANGED <<clsItems, clsResponse, clsResult, runs>>
    /\ UNCHANGED <<analyzeVars, regexVars, graphVars, mergeIds, loaded, merged, mergeStatus>>

BuildNext ==
    \/ \E rcpt \in Receipts : StartBuild(rcpt)
    \/ ExtractCallFails
    \/ \E response \in TextsOf(AIExtractionResponses) : ExtractCallReturns(response)
    \/ ClassifyCallFails
    \/ \E response \in BuildClassificationTexts : ClassifyCallReturns(response)

SpecBuild == Init /\ [][BuildNext]_vars

(***************************************************************************)
(* Merge specification: graphs are saved to the collection, merge_graphs   *)
(* is called on any list of document ids and returns to its caller         *)
(***************************************************************************)
SaveKnowledgeGraph(g) ==
    /\ mergeStatus = "idle"
    /\ store[g.name] # SavedDocument(g)
    /\ store' = save_knowledge_graph(store, g)
    /\ UNCHANGED <<mergeIds, loaded, merged, mergeStatus>>
    /\ UNCHANGED <<analyzeVars, regexVars, graphVars, clsVars, buildVars>>

\* merge_graphs(graph_ids, user_id)
MergeGraphs(graph_ids) ==
    /\ mergeStatus = "idle"
    /\ mergeIds' = graph_ids
    /\ LET graphs == LoadGraphs(store, graph_ids) IN
       IF graphs = <<>>
       THEN /\ mergeStatus' = "raised"
            /\ UNCHANGED <<loaded, merged, store>>
       ELSE /\ mergeStatus' = "returned"
            /\ merged' = MergedGraph(graphs)
            /\ loaded' = LoadedAfterMerge(graphs)
            /\ store' = _store_graph(store, merged')
    /\ UNCHANGED <<analyzeVars, regexVars, graphVars, clsVars, buildVars>>

\* the caller has its answer
MergeDone ==
    /\ mergeStatus # "idle"
    /\ mergeStatus' = "idle"
    /\ mergeIds' = <<>>
    /\ loaded' = <<>>
    /\ merged' = KnowledgeGraph("none", <<>>)
    /\ UNCHANGED store
    /\ UNCHANGED <<analyzeVars, regexVars, graphVars, clsVars, buildVars>>

MergeNext ==
    \/ \E g \in SampleGraphs : SaveKnowledgeGraph(g)
    \/ \E graph_ids \in SeqsUpTo(DocIds, MaxMergeIds) \ {<<>>} : MergeGraphs(graph_ids)
    \/ MergeDone

SpecMerge == Init /\ [][MergeNext]_vars

(***************************************************************************)
(* Graph production specification: the two operations that add relations  *)
(* to a graph, a build run or a session of saves and merges.  The build    *)
(* writes nothing to the collection and a merge reads nothing of a build,  *)
(* so the behaviours of either alone show every graph an interleaving of   *)
(* both can produce.                                                       *)
(***************************************************************************)
NothingStored == \A d \in AllDocIds : ~store[d].exists

ProduceNext ==
    \/ (mergeStatus = "idle" /\ NothingStored) /\ BuildNext
    \/ pc = "idle" /\ MergeNext

SpecProduce == Init /\ [][ProduceNext]_vars

(***************************************************************************)
(* Analytics specification: a graph reaches the collection, either one of  *)
(* the sample graphs or the graph a build run returned, saved under its    *)
(* name; analyze_graph is called on an id that resolves or on one that     *)
(* does not, and returns to its caller                                     *)
(***************************************************************************)
\* analyze_graph(graph_id)
AnalyzeGraph(graph_id) ==
    /\ analyzeStatus = "idle"
    /\ analyzedId' = graph_id
    /\ IF ~store[graph_id].exists
       THEN /\ analyzeStatus' = "raised"
            /\ UNCHANGED analytics
       ELSE /\ analyzeStatus' = "returned"
            /\ analytics' = GraphAnalytics(graph_id, from_dict(store[graph_id]))
    /\ UNCHANGED <<regexVars, graphVars, clsVars, buildVars, mergeVars>>

\* the caller has its answer
AnalyzeDone ==
    /\ analyzeStatus # "idle"
    /\ analyzeStatus' = "idle"
    /\ analyzedId' = None
    /\ analytics' = NoAnalytics
    /\ UNCHANGED <<regexVars, graphVars, clsVars, buildVars, mergeVars>>

AnalyzeNext ==
    \/ (analyzeStatus = "idle" /\ NothingStored) /\ BuildNext
    \/ (pc = "idle" /\ NothingStored) /\ \E g \in SampleGraphs : SaveKnowledgeGraph(g)
    \/ (pc = "done" /\ buildStatus = "returned" /\ NothingStored) /\ SaveKnowledgeGraph(built)
    \/ (pc \in {"idle", "done"} /\ ~NothingStored)
          /\ \E graph_id \in AllDocIds :
                /\ store[graph_id].exists \/ graph_id = "gX"
                /\ AnalyzeGraph(graph_id)
    \/ AnalyzeDone

SpecAnalyze == Init /\ [][AnalyzeNext]_vars

(***************************************************************************)
(* Regex-extractor specification: _fallback_regex_extraction is called on  *)
(* any raw text of up to MaxLines lines and returns to its caller          *)
(***************************************************************************)
FallbackRegexExtraction(rcpt) ==
    /\ "none" \in DOMAIN fbLocals
    /\ fbReceipt' = rcpt
    /\ fbLocals' = FallbackLocals(rcpt.raw_text, rcpt)
    /\ UNCHANGED <<analyzeVars, graphVars, clsVars, buildVars, mergeVars>>

\* the caller has its list
FallbackRegexDone ==
    /\ "none" \notin DOMAIN fbLocals
    /\ fbReceipt' = [none |-> TRUE]
    /\ fbLocals' = [none |-> TRUE]
    /\ UNCHANGED <<analyzeVars, graphVars, clsVars, buildVars, mergeVars>>

RegexNext ==
    \/ ("none" \in DOMAIN fbLocals)
          /\ \E rcpt \in RegexReceipts : FallbackRegexExtraction(rcpt)
    \/ FallbackRegexDone

SpecRegex == Init /\ [][RegexNext]_vars

(***************************************************************************)
(* C1: for every KnowledgeGraph, after any sequence of add_entity and      *)
(* add_relation operations (and to_dict / from_dict round trips),          *)
(* total_entities equals the number of entities and total_relations the    *)
(* number of relations.                                                    *)
(***************************************************************************)
C1_GraphCounters ==
    /\ kg.total_entities = Len(kg.entities)
    /\ kg.total_relations = Len(kg.relations)

\* a graph reloaded from its dictionary that then received one more entity and
\* holds relations as well
C1_Witness ==
    /\ kgDoc.exists
    /\ Len(kgDoc.entities) >= 1
    /\ Len(kg.entities) > Len(kgDoc.entities)
    /\ Len(kg.relations) >= 2

C3_ConfidenceBound ==
    buildStatus = "returned" =>
        \A i \in 1..Len(built.entities) :
            /\ built.entities[i].confidence >= 0
            /\ built.entities[i].confidence <= 10

(***************************************************************************)
(* C9: _extract_items_from_text never fails: whether the AI call succeeds, *)
(* fails after its retries, answers nothing or answers what cannot be      *)
(* parsed, it returns a list and raises nothing, and the list is empty     *)
(* when the answer was empty or unparseable.                               *)
(***************************************************************************)
C9_ExtractionNeverFails ==
    pc \in {"classify", "done"} =>
        /\ extractPath \in {"ai", "empty", "decode_error", "fallback"}
        /\ extractPath \in {"empty", "decode_error"} => geminiItems = <<>>

\* the AI call failed after its retries and the regex fallback found the two
\* items of the receipt text
C9_Witness ==
    /\ pc \in {"classify", "done"}
    /\ extractPath = "fallback"
    /\ receipt.id = "rcp1"
    /\ Len(geminiItems) = 2

(***************************************************************************)
(* C10: for a well-formed receipt build_graph_from_receipt returns a graph *)
(* under every combination of AI outcomes in extraction and                *)
(* classification: no failure of either propagates to the caller.          *)
(***************************************************************************)
C10_BuildAlwaysReturns ==
    pc = "done" => buildStatus = "returned"

(***************************************************************************)
(* What a merge was given: the documents of the requested ids that exist,  *)
(* read back as graphs, and their entities and relations in order          *)
(***************************************************************************)
MergeSources == LoadGraphs(store, mergeIds)

SourceEntities == AllEntities(MergeSources)

SourceRelations == AllRelations(MergeSources)

\* how many source relations end up on the key of a merged relation
OccurrencesOf(relation) ==
    Cardinality({ k \in 1..Len(SourceRelations) :
        RelationKey(merged.entities, SourceRelations[k])
            = <<relation.source_entity_id, relation.target_entity_id,
                relation.relation_type>> })

(***************************************************************************)
(* C4: a relation strengthened during merge_graphs, that is one whose      *)
(* (source, target, type) key occurs more than once in the merged graphs,  *)
(* ends with a weight of at most 1.0, however often the key repeats.       *)
(***************************************************************************)
C4_MergeWeightCap ==
    mergeStatus = "returned" =>
        \A k \in 1..Len(merged.relations) :
            OccurrencesOf(merged.relations[k]) >= 2 => merged.relations[k].weight <= 10

\* a key that occurs at least three times, first with weight 0.9: the cap acted
C4_Witness ==
    /\ mergeStatus = "returned"
    /\ \E k \in 1..Len(merged.relations) :
        /\ OccurrencesOf(merged.relations[k]) >= 3
        /\ merged.relations[k].id = "rd1"
        /\ merged.relations[k].weight = 10

(***************************************************************************)
(* C5: merging graphs that share no entity name gives a graph whose entity *)
(* count is the sum of the inputs' entity counts and whose relation count  *)
(* is the sum of the inputs' relation counts.                              *)
(***************************************************************************)
NoOverlappingNames ==
    \A k, m \in 1..Len(SourceEntities) :
        k # m => Lower(SourceEntities[k].name) # Lower(SourceEntities[m].name)

C5_DisjointMergeCounts ==
    (mergeStatus = "returned" /\ NoOverlappingNames) =>
        /\ Len(merged.entities) = Len(SourceEntities)
        /\ Len(merged.relations) = Len(SourceRelations)

(***************************************************************************)
(* C6: after merge_graphs the merged graph holds exactly one entity per    *)
(* (lower-cased name, type) key of the source graphs; it keeps the id and  *)
(* the name of the first occurrence, its attributes are the union of the   *)
(* attributes of all occurrences, a later occurrence overwriting an equal  *)
(* key, and its confidence is the largest of all occurrences.              *)
(***************************************************************************)
OccurrencesOfKey(key) ==
    { k \in 1..Len(SourceEntities) : EntityKey(SourceEntities[k]) = key }

C6_MergeEntities ==
    mergeStatus = "returned" =>
        /\ \A k, m \in 1..Len(merged.entities) :
              k # m => EntityKey(merged.entities[k]) # EntityKey(merged.entities[m])
        /\ { EntityKey(merged.entities[k]) : k \in 1..Len(merged.entities) }
              = { EntityKey(SourceEntities[k]) : k \in 1..Len(SourceEntities) }
        /\ \A k \in 1..Len(merged.entities) :
              LET e == merged.entities[k]
                  occ == OccurrencesOfKey(EntityKey(e))
                  first == CHOOSE o \in occ : \A p \in occ : o <= p
                  keys == UNION { DOMAIN SourceEntities[o].attributes : o \in occ }
                  LastWith(a) ==
                      CHOOSE o \in occ :
                          /\ a \in DOMAIN SourceEntities[o].attributes
                          /\ \A p \in occ :
                                a \in DOMAIN SourceEntities[p].attributes => p <= o
              IN  /\ e.id = SourceEntities[first].id
                  /\ e.name = SourceEntities[first].name
                  /\ DOMAIN e.attributes = keys
                  /\ \A a \in keys :
                        e.attributes[a] = SourceEntities[LastWith(a)].attributes[a]
                  /\ \A o \in occ : e.confidence >= SourceEntities[o].confidence
                  /\ \E o \in occ : e.confidence = SourceEntities[o].confidence

\* "Big Mart" of gA and "big mart" of gB became one merchant: named after the
\* first, address overwritten by the second, phone added, confidence raised
C6_Witness ==
    /\ mergeStatus = "returned"
    /\ mergeIds = <<"gA", "gB">>
    /\ \E k \in 1..Len(merged.entities) :
        /\ merged.entities[k].id = "a1"
        /\ merged.entities[k].name = "Big Mart"
        /\ merged.entities[k].attributes =
              [address |-> "Main Street 12", tax_id |-> "T1", phone |-> "555"]
        /\ merged.entities[k].confidence = 10

(***************************************************************************)
(* C7: merge_graphs fails (ValueError "No valid graphs found to merge")    *)
(* exactly when none of the requested ids resolves to a stored graph; when *)
(* at least one resolves it returns a new graph built from the resolved    *)
(* graphs only, the other ids being skipped.                               *)
(***************************************************************************)
RECURSIVE ReceiptIdsOfExisting(_)
ReceiptIdsOfExisting(graph_ids) ==
    IF graph_ids = <<>> THEN <<>>
    ELSE (IF store[Head(graph_ids)].exists THEN store[Head(graph_ids)].receipt_ids
          ELSE <<>>) \o ReceiptIdsOfExisting(Tail(graph_ids))

C7_MergeNotFound ==
    mergeStatus # "idle" =>
        /\ mergeStatus = "raised" <=> \A i \in 1..Len(mergeIds) : ~store[mergeIds[i]].exists
        /\ mergeStatus = "returned" =>
              /\ merged.name \notin DocIds
              /\ merged.receipt_ids = ReceiptIdsOfExisting(mergeIds)

\* an id that does not resolve comes first, a stored graph second: the merge
\* returns the graph of the second alone
C7_Witness ==
    /\ mergeStatus = "returned"
    /\ mergeIds = <<"gX", "gC">>
    /\ merged.receipt_ids = <<"rcpC">>
    /\ Len(merged.entities) = 2

(***************************************************************************)
(* C8: merge_graphs never mutates its inputs: after a merge every source   *)
(* graph, as persisted and as loaded for the merge, has the same entities  *)
(* with the same attributes and confidence and the same relations with the *)
(* same endpoints and weights as before.                                   *)
(***************************************************************************)
C8_MergeLeavesInputsUntouched ==
    mergeStatus = "returned" =>
        /\ Len(loaded) = Len(MergeSources)
        /\ \A i \in 1..Len(loaded) :
              /\ loaded[i].entities = MergeSources[i].entities
              /\ loaded[i].relations = MergeSources[i].relations

(***************************************************************************)
(* C11: in item extraction every parse failure of the AI answer and every  *)
(* transport failure of the AI call triggers the deterministic fallback:   *)
(* the items returned are those of _fallback_regex_extraction on the same  *)
(* raw text.                                                               *)
(***************************************************************************)
C11_FailureTriggersFallback ==
    (pc \in {"classify", "done"} /\ extractPath \in {"decode_error", "fallback"}) =>
        geminiItems = _fallback_regex_extraction(receipt.raw_text, receipt)

(***************************************************************************)
(* C12: in item classification every failure of the AI path, a transport   *)
(* failure after the retries or an answer that cannot be parsed, yields    *)
(* the keyword-rule classification of the same items (keyword category,    *)
(* confidence 0.7, shelf-life expiry) and no other default.                *)
(***************************************************************************)
AIPathFailed(response) ==
    \/ response.kind = "error"
    \/ response.kind = "text" /\ StripFence(response).t = "invalid"

C12_FailureYieldsKeywordFallback ==
    (clsResult.status # "idle" /\ WellFormedBatch(clsItems) /\ AIPathFailed(clsResponse)) =>
        clsResult = _create_fallback_classifications(clsItems)

(***************************************************************************)
(* The attempts of one operation (the extraction, the classification) of   *)
(* the run, in order                                                       *)
(***************************************************************************)
OpAttempts(op) == SelectSeq(aiLog, LAMBDA e : e.op = op)

AIOperations == {"extract", "classify"}

(***************************************************************************)
(* C13: _call_gemini is retried up to 3 times on an error, sleeping 1s, 2s *)
(* and 4s before the successive retries; it returns as soon as an attempt  *)
(* succeeds and raises to its caller only after the retries are exhausted, *)
(* that is after the first attempt and three retries have failed.          *)
(***************************************************************************)
C13_RetryBackoff ==
    \A op \in AIOperations :
        LET a == OpAttempts(op) IN
        /\ Len(a) <= 4
        /\ \A k \in 1..Len(a) :
              /\ a[k].outcome = "text" => k = Len(a)
              /\ (a[k].outcome = "error" /\ ~a[k].raised) => a[k].slept = 2 ^ (k - 1)
              /\ a[k].raised => k = 4

C16_StoreFailureSwallowed ==
    (pc = "done" /\ storeOutcome # "none") =>
        /\ buildStatus = "returned"
        /\ built = AssembleGraph(receipt, itemsToProcess, classified)

\* the store raised on a graph that holds products and relations
C16_Witness ==
    /\ pc = "done"
    /\ storeOutcome = "raised"
    /\ buildStatus = "returned"
    /\ Len(itemsToProcess) > 0
    /\ built.total_relations > 0

(***************************************************************************)
(* C17: concurrent pipelines hold no shared mutable state: under every     *)
(* interleaving of two classification runs on the agent, the result of a   *)
(* run and the business analysis observable after it depend only on that   *)
(* run's own items and AI answer (the analysis parsed from its answer or   *)
(* put in its place, and none when the run stored none).                   *)
(***************************************************************************)
C17_NoSharedState ==
    \A p \in Pipelines :
        runs[p].pc = "done" =>
            /\ runs[p].result = _classify_items_with_gemini(test_items, runs[p].response)
            /\ runs[p].observed = AnalysisAfterClassify(Unset, test_items, runs[p].response)

(***************************************************************************)
(* C18: whenever relations are added to a graph, in the assembly of        *)
(* build_graph_from_receipt and in merge_graphs, the source_entity_id and  *)
(* the target_entity_id of each are ids of entities present in that graph  *)
(* (entities are added before relations and never removed).                *)
(***************************************************************************)
EntityIds(g) == { g.entities[i].id : i \in 1..Len(g.entities) }

EndpointsExist(g) ==
    \A k \in 1..Len(g.relations) :
        /\ g.relations[k].source_entity_id \in EntityIds(g)
        /\ g.relations[k].target_entity_id \in EntityIds(g)

C18_RelationEndpointsExist ==
    /\ buildStatus = "returned" => EndpointsExist(built)
    /\ mergeStatus = "returned" => EndpointsExist(merged)

\* a built graph with a manufactured_by relation, whose target is the second of
\* the two brand entities the item produced
C18_Witness ==
    /\ buildStatus = "returned"
    /\ \E k \in 1..Len(built.relations) :
          built.relations[k].relation_type = "manufactured_by"
    /\ EndpointsExist(built)

(***************************************************************************)
(* The keyword fallback ran on the batch clsItems; what it read of item i  *)
(* and what it answered for it                                             *)
(***************************************************************************)
FallbackRan == clsResult.status = "returned" /\ clsResponse.kind = "error"

NameRead(i) == Lower(FallbackItemName(clsItems[i]))

\* the first keyword set, in the order food, electronics, clothing, pharmacy,
\* of which a keyword occurs in the name
Recognised(name) ==
    CASE AnyKeyword(name, food_keywords) -> "food"
      [] ~AnyKeyword(name, food_keywords) /\ AnyKeyword(name, electronics_keywords)
            -> "electronics"
      [] ~AnyKeyword(name, food_keywords \cup electronics_keywords)
            /\ AnyKeyword(name, clothing_keywords) -> "clothing"
      [] ~AnyKeyword(name, food_keywords \cup electronics_keywords \cup clothing_keywords)
            /\ AnyKeyword(name, pharmacy_keywords) -> "pharmacy"
      [] OTHER -> "none"

(***************************************************************************)
(* C19: in the keyword fallback every item recognised as food or pharmacy  *)
(* has has_expiry = true and a predicted expiry date that is not null,     *)
(* every item recognised as electronics has has_warranty = true with a     *)
(* period of 1 year, every item that matches no keyword set has category   *)
(* "other", and no other item has has_expiry or has_warranty set.          *)
(***************************************************************************)
C19_KeywordFlags ==
    FallbackRan =>
        \A i \in 1..Len(clsItems) :
            LET kind == Recognised(NameRead(i))
                r == clsResult.value[i]
                expiry == r.enhanced_data.expiry_info
                warranty == r.enhanced_data.warranty_info
            IN  /\ r.category = CASE kind = "food" -> "grocery"
                                  [] kind = "none" -> "other"
                                  [] OTHER -> kind
                /\ expiry.has_expiry = (kind \in {"food", "pharmacy"})
                /\ expiry.has_expiry => expiry.expiry_date # NoDate
                /\ ~expiry.has_expiry => expiry.expiry_date = NoDate
                /\ warranty.has_warranty = (kind = "electronics")
                /\ warranty.warranty_period
                      = IF kind = "electronics" THEN "1 year" ELSE None

\* a batch of an electronics item and a pharmacy item: warranty on the first,
\* expiry on the second
C19_Witness ==
    /\ FallbackRan
    /\ Len(clsItems) = 2
    /\ clsResult.value[1].category = "electronics"
    /\ clsResult.value[1].enhanced_data.warranty_info.warranty_period = "1 year"
    /\ clsResult.value[2].category = "pharmacy"
    /\ clsResult.value[2].enhanced_data.expiry_info.has_expiry

(***************************************************************************)
(* C20: for every item the keyword fallback marks has_expiry = true the    *)
(* predicted expiry date is today plus the days of the first shelf-life    *)
(* keyword, in the order of the table, that occurs in the lower-cased      *)
(* name, or plus 30 days when none occurs; "Whole Milk" is classified      *)
(* "grocery" with expiry date today + 3 days.                              *)
(***************************************************************************)
MatchingRules(name) ==
    { k \in 1..Len(expiry_rules) : expiry_rules[k][1] \in KeywordsIn(name) }

ShelfLifeDays(name) ==
    IF MatchingRules(name) = {} THEN 30
    ELSE expiry_rules[CHOOSE k \in MatchingRules(name) :
                          \A m \in MatchingRules(name) : k <= m][2]

C20_PredictedExpiry ==
    FallbackRan =>
        \A i \in 1..Len(clsItems) :
            LET r == clsResult.value[i] IN
            /\ r.enhanced_data.expiry_info.has_expiry =>
                  r.enhanced_data.expiry_info.expiry_date
                      = TodayPlus(ShelfLifeDays(NameRead(i)))
            /\ NameRead(i) = "whole milk" =>
                  /\ r.category = "grocery"
                  /\ r.enhanced_data.expiry_info.expiry_date = TodayPlus(3)

\* "Whole Milk" with today + 3 days, next to "Orange Juice", in which three
\* shelf-life keywords occur and the first of the table (orange, 10 days) decides
C20_Witness ==
    /\ FallbackRan
    /\ Len(clsItems) = 2
    /\ NameRead(1) = "whole milk"
    /\ clsResult.value[1].enhanced_data.expiry_info.expiry_date = TodayPlus(3)
    /\ NameRead(2) = "orange juice"
    /\ clsResult.value[2].enhanced_data.expiry_info.expiry_date = TodayPlus(10)

(***************************************************************************)
(* What remapping a relation to the surviving entities means: an endpoint  *)
(* id names an entity of the relation's own graph, and that entity         *)
(* survives as the merged entity of the same (lower-cased name, type) key  *)
(***************************************************************************)
SurvivingId(graph, entity_id) ==
    LET own == { k \in 1..Len(graph.entities) : graph.entities[k].id = entity_id }
    IN  IF own = {} THEN None
        ELSE LET e == graph.entities[CHOOSE k \in own : \A m \in own : k <= m]
                 kept == { k \in 1..Len(merged.entities) :
                             EntityKey(merged.entities[k]) = EntityKey(e) }
             IN  IF kept = {} THEN None
                 ELSE merged.entities[CHOOSE k \in kept : TRUE].id

RECURSIVE ResolvedKeys(_)
ResolvedKeys(graphs) ==
    IF graphs = <<>> THEN <<>>
    ELSE LET g == Head(graphs) IN
         [k \in 1..Len(g.relations) |->
             <<SurvivingId(g, g.relations[k].source_entity_id),
               SurvivingId(g, g.relations[k].target_entity_id),
               g.relations[k].relation_type>>]
         \o ResolvedKeys(Tail(graphs))

(***************************************************************************)
(* C21: merge_graphs remaps the endpoints of every relation of every       *)
(* resolved source graph to the surviving deduplicated entities and keeps  *)
(* it: for each distinct (resolved source id, resolved target id, type)    *)
(* the merged graph holds exactly one relation, whose weight is the weight *)
(* of the first occurrence plus 0.1 per further occurrence, at most 1.0.   *)
(***************************************************************************)
C21_MergeRelationsRemapped ==
    mergeStatus = "returned" =>
        LET keys == ResolvedKeys(MergeSources) IN
        \A k \in 1..Len(keys) :
            (keys[k][1] # None /\ keys[k][2] # None) =>
                LET occ == { m \in 1..Len(keys) : keys[m] = keys[k] }
                    first == CHOOSE o \in occ : \A p \in occ : o <= p
                    hits == { r \in 1..Len(merged.relations) :
                                <<merged.relations[r].source_entity_id,
                                  merged.relations[r].target_entity_id,
                                  merged.relations[r].relation_type>> = keys[k] }
                IN  /\ Cardinality(hits) = 1
                    /\ \A r \in hits :
                          merged.relations[r].weight
                              = Min(SourceRelations[first].weight + Cardinality(occ) - 1, 10)

(***************************************************************************)
(* C24: during assembly the item set that is classified is the extractor's *)
(* output if and only if the extractor returned strictly more items than   *)
(* the receipt's structured item list or the receipt has no structured     *)
(* items; otherwise it is exactly the receipt's own structured items.      *)
(***************************************************************************)
C24_ItemSetChoice ==
    pc \in {"classify", "done"} =>
        LET prefer == Len(geminiItems) > Len(receipt.items) \/ receipt.items = <<>>
        IN  /\ (itemsToProcess = geminiItems) <=> prefer
            /\ ~prefer => itemsToProcess = receipt.items

\* the extractor found as many items as the receipt carries: the receipt's own
\* item is the one classified
C24_Witness ==
    /\ pc \in {"classify", "done"}
    /\ Len(receipt.items) = 1
    /\ Len(geminiItems) = 1
    /\ itemsToProcess = receipt.items
    /\ itemsToProcess # geminiItems

(***************************************************************************)
(* The assembled graph of a run that returned, by entity type              *)
(***************************************************************************)
Assembled == pc = "done" /\ buildStatus = "returned"

BuiltOfType(t) == { i \in 1..Len(built.entities) : built.entities[i].type = t }

BuiltRelations(rtype, src) ==
    { k \in 1..Len(built.relations) :
        /\ built.relations[k].relation_type = rtype
        /\ built.relations[k].source_entity_id = src }

(***************************************************************************)
(* C25: in every assembled graph each product entity has a                 *)
(* belongs_to_category relation to the category entity named after its     *)
(* category, with weight equal to that product's confidence, and a         *)
(* purchased_at relation to the merchant entity with weight 1.0.           *)
(***************************************************************************)
C25_ProductRelations ==
    Assembled =>
        \A p \in BuiltOfType("product") :
            /\ \E k \in BuiltRelations("belongs_to_category", built.entities[p].id) :
                  /\ built.relations[k].weight = built.entities[p].confidence
                  /\ \E c \in BuiltOfType("category") :
                        /\ built.entities[c].id = built.relations[k].target_entity_id
                        /\ built.entities[c].name = built.entities[p].category
            /\ \E k \in BuiltRelations("purchased_at", built.entities[p].id) :
                  /\ built.relations[k].weight = 10
                  /\ \E m \in BuiltOfType("merchant") :
                        built.entities[m].id = built.relations[k].target_entity_id

\* the same statement for the runs in which every item was given a category
\* that is not the empty string
C25_NamedCategoriesOnly ==
    (\A i \in 1..Len(classified) : classified[i].category # "") => C25_ProductRelations

\* the position in built.entities of the product entity of the i-th classified item
ProductOfItem(i) ==
    CHOOSE p \in BuiltOfType("product") :
        Cardinality({ q \in BuiltOfType("product") : q <= p }) = i

\* the brand the classification of the i-th item names, None when it names none
DetectedBrand(i) ==
    LET brand == Get(classified[i], "brand", None)
    IN  IF brand = "" THEN None ELSE brand

(***************************************************************************)
(* C26: in every assembled graph a product has a manufactured_by relation  *)
(* (weight 0.9) if and only if a brand was detected for that product's     *)
(* item, and the relation's target is a brand entity whose name is the     *)
(* brand detected for that same item, also when several items share a      *)
(* name.                                                                   *)
(***************************************************************************)
C26_ManufacturedBy ==
    Assembled =>
        \A i \in 1..Len(classified) :
            LET product == built.entities[ProductOfItem(i)]
                made == BuiltRelations("manufactured_by", product.id)
            IN  /\ (made # {}) <=> (DetectedBrand(i) # None)
                /\ \A k \in made :
                      /\ built.relations[k].weight = 9
                      /\ \E b \in BuiltOfType("brand") :
                            /\ built.entities[b].id = built.relations[k].target_entity_id
                            /\ built.entities[b].name = DetectedBrand(i)

\* the same statement for receipts on which no two items share a name and every
\* item has a name
C26_DistinctNamesOnly ==
    (\A i, j \in 1..Len(itemsToProcess) :
        /\ WellFormedItem(itemsToProcess[i])
        /\ i # j => ItemDisplayName(itemsToProcess[i]) # ItemDisplayName(itemsToProcess[j]))
    => C26_ManufacturedBy

(***************************************************************************)
(* What analyze_graph was given: the stored document read back as a graph  *)
(***************************************************************************)
AnalyzedGraph == from_dict(store[analyzedId])

RECURSIVE SumOver(_, _)
SumOver(f, keys) ==
    IF keys = {} THEN 0
    ELSE LET k == CHOOSE x \in keys : TRUE IN f[k] + SumOver(f, keys \ {k})

\* the belongs_to_category relations whose target is a category entity
CategoryLinks(g) ==
    { k \in 1..Len(g.relations) :
        /\ g.relations[k].relation_type = "belongs_to_category"
        /\ \E i \in 1..Len(g.entities) :
              /\ g.entities[i].type = "category"
              /\ g.entities[i].id = g.relations[k].target_entity_id }

(***************************************************************************)
(* C27: for every graph analyze_graph reports for each category the count  *)
(* of belongs_to_category relations of its category entity: the values of  *)
(* category_distribution sum to the number of belongs_to_category          *)
(* relations whose target is a category entity of the graph, also for      *)
(* graphs the assembler produced from receipts with several products in    *)
(* one category.                                                           *)
(***************************************************************************)
C27_CategoryDistribution ==
    analyzeStatus = "returned" =>
        SumOver(analytics.category_distribution, DOMAIN analytics.category_distribution)
            = Cardinality(CategoryLinks(AnalyzedGraph))

\* the first-created category entity of a name, 0 when no category entity has it
FirstCategoryNamed(name) ==
    LET named == { c \in BuiltOfType("category") : built.entities[c].name = name }
    IN  IF named = {} THEN 0 ELSE CHOOSE c \in named : \A d \in named : c <= d

(***************************************************************************)
(* C29: in every assembled graph there are as many category entities as    *)
(* product entities (one per classified item, not one per distinct         *)
(* category); all products sharing a category name are linked by           *)
(* belongs_to_category to the first-created category entity of that name,  *)
(* and every later category entity of that name has no relation.           *)
(***************************************************************************)
C29_CategoryEntities ==
    Assembled =>
        /\ Cardinality(BuiltOfType("category")) = Cardinality(BuiltOfType("product"))
        /\ \A p \in BuiltOfType("product") :
              LET first == FirstCategoryNamed(built.entities[p].category)
              IN  /\ first # 0
                  /\ \E k \in BuiltRelations("belongs_to_category", built.entities[p].id) :
                        built.relations[k].target_entity_id = built.entities[first].id
        /\ \A c \in BuiltOfType("category") :
              c # FirstCategoryNamed(built.entities[c].name) =>
                  \A k \in 1..Len(built.relations) :
                      /\ built.relations[k].source_entity_id # built.entities[c].id
                      /\ built.relations[k].target_entity_id # built.entities[c].id

\* the same statement for the runs in which every item was given a category
\* that is not the empty string
C29_NamedCategoriesOnly ==
    (\A i \in 1..Len(classified) : classified[i].category # "") => C29_CategoryEntities

\* an attempt that ends its operation: it returned a text, or it was the failure
\* that _call_gemini raised to its caller
EndsOperation(a) == a.outcome = "text" \/ a.raised

(***************************************************************************)
(* C28: one build_graph_from_receipt run is strictly sequential in its AI  *)
(* use: the extraction operation is complete (a text, or the failure after *)
(* its retries) before the classification operation starts; the            *)
(* classification operation is started at most once and only when the      *)
(* chosen item set is not empty; and the run makes at most 3 AI attempts   *)
(* per operation, at most 6 in all.                                        *)
(***************************************************************************)
C28_SequentialAIUse ==
    /\ \A i, j \in 1..Len(aiLog) :
          (aiLog[i].op = "extract" /\ aiLog[j].op = "classify") => i < j
    /\ OpAttempts("classify") # <<>> =>
          /\ OpAttempts("extract") # <<>>
          /\ EndsOperation(OpAttempts("extract")[Len(OpAttempts("extract"))])
          /\ itemsToProcess # <<>>
    /\ pc = "classify" => itemsToProcess # <<>>
    /\ \A op \in AIOperations :
          LET a == OpAttempts(op) IN
          /\ \A k \in 1..Len(a) : EndsOperation(a[k]) => k = Len(a)
          /\ Len(a) <= 3
    /\ Len(aiLog) <= 6

\* both operations used all their attempts: three failures of the extraction,
\* the items of the regex fallback, three failures of the classification
C28_Witness ==
    /\ pc = "done"
    /\ Len(aiLog) = 6
    /\ Len(OpAttempts("extract")) = 3
    /\ Len(OpAttempts("classify")) = 3
    /\ aiLog[3].raised
    /\ aiLog[6].raised
    /\ extractPath = "fallback"
    /\ itemsToProcess # <<>>

(***************************************************************************)
(* The regex extractor has returned                                        *)
(***************************************************************************)
RegexReturned == "none" \notin DOMAIN fbLocals

\* the elements of a list of line indices
Lines(seq) == { seq[k] : k \in 1..Len(seq) }

(***************************************************************************)
(* C22: in the pairing step of the fallback extractor each item-name       *)
(* candidate is paired with the nearest still-unused price line by         *)
(* absolute line-index distance, each price line is used for at most one   *)
(* item, names left without a price are dropped, and so the number of      *)
(* paired items is min(number of name candidates, number of price lines).  *)
(***************************************************************************)
C22_NearestUnusedPrice ==
    RegexReturned =>
        LET pairs == fbLocals.pairs
            names == fbLocals.item_lines
            prices == Lines(fbLocals.price_lines)
            UsedBefore(k) == { pairs[m][2] : m \in 1..(k - 1) }
        IN  /\ Len(pairs) = Min(Len(names), Len(fbLocals.price_lines))
            /\ \A k \in 1..Len(pairs) :
                  /\ pairs[k][1] = names[k]
                  /\ pairs[k][2] \in prices \ UsedBefore(k)
                  /\ \A q \in prices \ UsedBefore(k) :
                        Distance(pairs[k][1], pairs[k][2]) <= Distance(pairs[k][1], q)
            /\ Len(fbLocals.items) = Len(fbLocals.same_lines) + Len(pairs)
            /\ \A k \in 1..Len(pairs) :
                  fbLocals.items[Len(fbLocals.same_lines) + k]
                      = ExtractedItem(fbReceipt.raw_text[pairs[k][1]].name,
                                      fbReceipt.raw_text[pairs[k][2]].price)

\* two names and two prices: the price nearest to the second name was taken by
\* the first, the second name got the other one
C22_Witness ==
    /\ RegexReturned
    /\ Len(fbLocals.item_lines) = 2
    /\ Len(fbLocals.price_lines) = 2
    /\ Len(fbLocals.pairs) = 2
    /\ \E q \in Lines(fbLocals.price_lines) :
          /\ q = fbLocals.pairs[1][2]
          /\ Distance(fbLocals.pairs[2][1], q)
                < Distance(fbLocals.pairs[2][1], fbLocals.pairs[2][2])

(***************************************************************************)
(* C23: every item the fallback extractor returns, same-line or paired,    *)
(* has quantity 1, a total_price equal to its unit price, a price in       *)
(* [1, 10000], and, when the receipt supplies a total, a price that is not *)
(* within a cent of that total.                                            *)
(***************************************************************************)
C23_FallbackItems ==
    RegexReturned =>
        \A k \in 1..Len(fbLocals.items) :
            LET item == fbLocals.items[k] IN
            /\ item.quantity = 1
            /\ item.total_price = item.price
            /\ item.price >= 100
            /\ item.price <= 1000000
            /\ fbReceipt.total_amount # 0 => item.price # fbReceipt.total_amount

\* a receipt with a total whose text holds a price line and a same-line item at
\* that total, and from which a same-line item and a paired item were returned
C23_Witness ==
    /\ RegexReturned
    /\ fbReceipt.total_amount = 9700
    /\ \E i, j \in 1..Len(fbReceipt.raw_text) :
          /\ fbReceipt.raw_text[i].kind = "price"
          /\ fbReceipt.raw_text[i].price = 9700
          /\ fbReceipt.raw_text[j].kind = "same_line"
          /\ fbReceipt.raw_text[j].price = 5500
    /\ Len(fbLocals.same_lines) = 1
    /\ Len(fbLocals.pairs) = 1
    /\ Len(fbLocals.items) = 2

(***************************************************************************)
(* C30: in the fallback extractor each input line plays at most one role   *)
(* (skipped, same-line item, price line, item-name candidate), so no line  *)
(* contributes to more than one returned item, and the returned list is    *)
(* all same-line items in line order followed by all paired items in the   *)
(* line order of their name candidates.                                    *)
(***************************************************************************)
C30_OneRolePerLine ==
    RegexReturned =>
        LET same == fbLocals.same_lines
            pairs == fbLocals.pairs
            items == fbLocals.items
            sources == fbLocals.sources
            text == fbReceipt.raw_text
        IN  /\ Lines(same) \cap Lines(fbLocals.item_lines) = {}
            /\ Lines(same) \cap Lines(fbLocals.price_lines) = {}
            /\ Lines(fbLocals.item_lines) \cap Lines(fbLocals.price_lines) = {}
            /\ Len(sources) = Len(items)
            /\ \A k, m \in 1..Len(items) : k # m => sources[k] \cap sources[m] = {}
            /\ Len(items) = Len(same) + Len(pairs)
            /\ \A k \in 1..Len(same) :
                  /\ sources[k] = {same[k]}
                  /\ items[k] = ExtractedItem(text[same[k]].name, text[same[k]].price)
                  /\ k > 1 => same[k - 1] < same[k]
            /\ \A k \in 1..Len(pairs) :
                  /\ sources[Len(same) + k] = {pairs[k][1], pairs[k][2]}
                  /\ items[Len(same) + k].name = text[pairs[k][1]].name
                  /\ k > 1 => pairs[k - 1][1] < pairs[k][1]

\* a same-line item that stands below a name and its price in the text comes
\* first in the returned list
C30_Witness ==
    /\ RegexReturned
    /\ Len(fbLocals.same_lines) = 1
    /\ Len(fbLocals.pairs) = 1
    /\ fbLocals.pairs[1][1] < fbLocals.same_lines[1]
    /\ fbLocals.items[1].name = "MILK 1L"
    /\ fbLocals.sources[1] = {fbLocals.same_lines[1]}
    /\ fbLocals.sources[2] = {fbLocals.pairs[1][1], fbLocals.pairs[1][2]}

====
